---- MODULE Spec2Model ----
(***************************************************************************)
(* Verification model of the design-pattern examples.                      *)
(*                                                                         *)
(*  - Singleton/Conceptual/ThreadSafe/main.cc : double-checked locking     *)
(*    accessor Singleton::GetInstance, run by concurrent ClientCode        *)
(*    threads (specification SpecSingleton).                               *)
(*  - Singleton/RealWorld/main.cc : the Logger singleton, Logger::level    *)
(*    and Logger::log (specifications SpecLogger, SpecLoggerMain and       *)
(*    SpecLoggerFair).                                                     *)
(*  - Singleton/Conceptual/main.cc : the function-local static instance   *)
(*    and ClientCode (specification SpecConceptual).                       *)
(*  - Singleton/Conceptual/NonThreadSafe/main.cc : the unguarded accessor  *)
(*    run by ThreadFoo and ThreadBar (specification SpecNonThreadSafe).    *)
(*  - Memento/Conceptual/main.cc : Originator and Caretaker                *)
(*    (specification SpecMemento).                                         *)
(*  - State/Conceptual/main.cc : Context and its two states                *)
(*    (specification SpecState).                                           *)
(*  - Observer/Conceptual/main.cc : Subject and Observer                   *)
(*    (specification SpecObserver).                                        *)
(*  - ChainOfResponsibility/Conceptual/main.cc : the handlers and          *)
(*    ClientCode (specification SpecChain).                                *)
(*  - Builder/Conceptual/main.cc : ConcreteBuilder1, Director and         *)
(*    Product1 (specification SpecBuilder).                                *)
(*  - Composite/Conceptual/main.cc : Leaf and Composite                    *)
(*    (specification SpecComposite).                                       *)
(*  - Command/Conceptual/main.cc : the Invoker and its commands            *)
(*    (specification SpecCommand).                                         *)
(***************************************************************************)
EXTENDS Integers, Sequences, FiniteSets, TLC

(***************************************************************************)
(* Bounds of the model.                                                    *)
(***************************************************************************)
\* number of concurrent threads running ClientCode of the thread-safe Singleton
NClients == 3
\* number of concurrent client threads of the Logger (SpecLogger)
NLogThreads == 2
\* number of Logger::level / Logger::log calls the clients issue in all (SpecLogger)
MaxCalls == 3
\* number of Caretaker / Originator calls the client of the Memento makes
MaxOps == 6
\* number of requests the client of the State pattern's Context makes
MaxRequests == 6
\* number of Observer objects the client of the Subject constructs
MaxObservers == 2
\* number of calls the client of the Subject and its Observers makes
MaxSubjectOps == 6
\* number of calls the client of the handlers makes (new, SetNext, Handle)
MaxChainOps == 6
\* number of calls the client of the builder and the director makes
MaxBuilderOps == 6
\* number of calls the client of the Composite tree makes
MaxTreeOps == 5
\* number of calls the client of the Invoker makes
MaxInvokerOps == 5

(***************************************************************************)
(* Common values.                                                          *)
(***************************************************************************)
\* nullptr
NULL == 0
\* an unlocked std::mutex; a locked one holds the id of its owner (ids >= 0)
Free == -1

\* std::ostream::operator<< of a non-negative integer: the decimal digits of the number
Digit == <<"0", "1", "2", "3", "4", "5", "6", "7", "8", "9">>

RECURSIVE DecimalString(_)
DecimalString(n) ==
    IF n < 10 THEN Digit[n + 1]
    ELSE DecimalString(n \div 10) \o Digit[(n % 10) + 1]

\* std::string built from pieces: the strings of a sequence one after the other
RECURSIVE Concat(_)
Concat(toks) == IF toks = <<>> THEN "" ELSE Head(toks) \o Concat(Tail(toks))

VARIABLES
    \* ---- Singleton/Conceptual/ThreadSafe ----
    pinstance,          \* std::atomic<Singleton *> Singleton::pinstance
    Singleton_mutex_,   \* std::mutex Singleton::mutex_ : Free or the owner
    heap,               \* number of Singleton objects constructed so far;
                        \* the k-th `new Singleton` yields address k
    gi_pc,              \* per thread: the line it is about to execute
    gi_call,            \* per thread: 1 while computing s1, 2 while computing s2
    s1, s2,             \* per thread: the locals of ClientCode
    gi_out,             \* per thread: what ClientCode printed
    gi_first,           \* per thread, per call: what the check of line 110 read
    gi_locked,          \* per thread, per call: did the call acquire mutex_
    gi_recheck,         \* per thread, per call: what the check of line 113 read
    gi_after,           \* per thread, per call: had a construction already
                        \* failed when the call was issued
    gi_terminated,      \* has std::terminate ended the process
    \* ---- Singleton/RealWorld (Logger) ----
    Logger_mutex_,      \* std::mutex Logger::mutex_ : Free or the owner
    Logger_os_,         \* std::ostream &Logger::os_ (std::cout): the sequence of
                        \* strings written, one per operator<<
    Logger_count_,      \* std::size_t Logger::count_
    Logger_level_,      \* Logger::Level Logger::level_
    Logger_instance,    \* has the local static of Logger::instance() been constructed
    lg_pc,              \* per thread: the line it is about to execute
    lg_arg,             \* per thread: the arguments of the call it is in
    lg_ret,             \* per thread: where the call returns to
    lg_issued,          \* history: the number of calls issued so far
    lg_waiting,         \* history: the threads whose call has been issued and has
                        \* not passed its lock_guard yet, in issue order
    lg_acq,             \* history: the calls in the order they acquired mutex_
    lg_idx,             \* per thread: the place in lg_acq of the call it is in
    \* ---- Singleton/Conceptual (local static) ----
    cs_singleton,       \* `static Singleton singleton` of GetInstance:
                        \* "none", "alive" or "destroyed"
    cs_process,         \* "running", "aborted" or "exited"
    cs_pc,              \* per thread: the line of ClientCode it is about to execute
    cs_s1, cs_s2,       \* per thread: the locals of ClientCode
    cs_out,             \* per thread: what ClientCode printed
    \* ---- Singleton/Conceptual/NonThreadSafe ----
    nts_singleton_,     \* Singleton *Singleton::singleton_
    nts_heap,           \* the Singleton objects constructed so far: the k-th
                        \* `new Singleton(value)` yields address k; the entry
                        \* is the object's value_
    nts_pc,             \* per thread (main, ThreadFoo, ThreadBar): the line
                        \* it is about to execute
    nts_known,          \* per thread: the pointer it last read from or is
                        \* about to store, or stored, in singleton_
    nts_local,          \* per thread: the local `singleton` of the thread
    nts_out,            \* std::cout: the strings written, one per operator<<
    \* ---- Memento/Conceptual ----
    Originator_state_,  \* std::string Originator::state_, as its characters
    Caretaker_mementos_,\* std::vector<Memento *> Caretaker::mementos_
    mm_heap,            \* the ConcreteMemento objects created so far: the k-th
                        \* `new ConcreteMemento` yields address k; the entry
                        \* holds the object's state_ and date_
    mm_out,             \* std::cout: the strings written, one per operator<<
    mm_trace,           \* history: the calls the client has made, in order
    \* ---- State/Conceptual ----
    Context_state_,     \* State *Context::state_
    st_heap,            \* the State objects created so far: the k-th `new`
                        \* yields address k; the entry holds the dynamic type,
                        \* context_ and whether the object has been deleted
    st_context,         \* the Context object: "alive" or "deleted"
    st_out,             \* std::cout: the strings written, one per operator<<
    st_trace,           \* history: the requests the client has made, in order
    \* ---- Observer/Conceptual ----
    list_observer_,     \* std::list<IObserver *> Subject::list_observer_
    Subject_message_,   \* std::string Subject::message_
    static_number_,     \* int Observer::static_number_
    ob_heap,            \* the Observer objects constructed so far: the k-th
                        \* `new Observer` yields address k; the entry holds
                        \* number_ and message_from_subject_
    ob_out,             \* std::cout: the strings written, one per operator<<
    ob_trace,           \* history: the Attach, Detach and notifying calls the
                        \* Subject has received, in order
    ob_updates,         \* history: per notification, the Update calls it made
    \* ---- ChainOfResponsibility/Conceptual ----
    ch_heap,            \* the handlers constructed so far: the k-th `new`
                        \* yields address k; the entry holds the dynamic type
                        \* and next_handler_
    ch_out,             \* std::cout: the strings written, one per operator<<
    ch_call,            \* history: the last call of Handle the client made:
                        \* the handler it was issued at, the request, whether
                        \* it returned, what it returned and the handlers
                        \* whose Handle ran, in order
    ch_ops,             \* history: the number of calls the client has made
    \* ---- Builder/Conceptual ----
    bd_product,         \* Product1 *ConcreteBuilder1::product
    bd_heap,            \* the Product1 objects created so far: the k-th `new
                        \* Product1` yields object k; the entry holds parts_
                        \* and whether the object has been deleted
    bd_builder,         \* the ConcreteBuilder1 object: "alive" or "deleted"
    bd_out,             \* std::cout: the strings written, one per operator<<
    bd_trace,           \* history: the Produce* and GetProduct calls the
                        \* builder has received, in order
    bd_got,             \* history: per GetProduct call, the object returned
                        \* and the parts it held when it was returned
    bd_ops,             \* history: the number of calls the client has made
    \* ---- Composite/Conceptual ----
    cp_heap,            \* the Component objects created so far: the k-th
                        \* `new` yields object k; the entry holds the dynamic
                        \* type, parent_ and children_
    cp_out,             \* std::cout: the strings written, one per operator<<
    cp_call,            \* history: the last call of Operation the client
                        \* made: the component, whether the call returned and
                        \* what it returned
    cp_ops,             \* history: the number of calls the client has made
    \* ---- Command/Conceptual ----
    Invoker_on_start_,  \* Command *Invoker::on_start_
    Invoker_on_finish_, \* Command *Invoker::on_finish_
    cm_heap,            \* the Command objects created so far: the k-th `new`
                        \* yields object k; the entry holds the dynamic type
                        \* and the strings the command was constructed with
    cm_process,         \* "running", "deleted" once the Invoker is deleted,
                        \* "crashed" once a call went through a pointer that
                        \* points at no object
    cm_out,             \* std::cout: the strings written, one per operator<<
    cm_set,             \* history: whether SetOnStart and SetOnFinish have
                        \* been called
    cm_run,             \* history: what the last DoSomethingImportant did, in
                        \* order, and whether it returned
    cm_ops              \* history: the number of calls the client has made

singletonVars == <<pinstance, Singleton_mutex_, heap, gi_pc, gi_call, s1, s2,
                   gi_out, gi_first, gi_locked, gi_recheck, gi_after,
                   gi_terminated>>

loggerVars == <<Logger_mutex_, Logger_os_, Logger_count_, Logger_level_,
                Logger_instance, lg_pc, lg_arg, lg_ret, lg_issued, lg_waiting,
                lg_acq, lg_idx>>

conceptualVars == <<cs_singleton, cs_process, cs_pc, cs_s1, cs_s2, cs_out>>

nonThreadSafeVars == <<nts_singleton_, nts_heap, nts_pc, nts_known, nts_local,
                       nts_out>>

mementoVars == <<Originator_state_, Caretaker_mementos_, mm_heap, mm_out,
                 mm_trace>>

stateVars == <<Context_state_, st_heap, st_context, st_out, st_trace>>

observerVars == <<list_observer_, Subject_message_, static_number_, ob_heap,
                  ob_out, ob_trace, ob_updates>>

chainVars == <<ch_heap, ch_out, ch_call, ch_ops>>

builderVars == <<bd_product, bd_heap, bd_builder, bd_out, bd_trace, bd_got,
                 bd_ops>>

compositeVars == <<cp_heap, cp_out, cp_call, cp_ops>>

commandVars == <<Invoker_on_start_, Invoker_on_finish_, cm_heap, cm_process,
                 cm_out, cm_set, cm_run, cm_ops>>

vars == <<singletonVars, loggerVars, conceptualVars, nonThreadSafeVars,
          mementoVars, stateVars, observerVars, chainVars, builderVars,
          compositeVars, commandVars>>

\* what the steps of one program leave alone: the variables of the others
outsideSingleton == <<loggerVars, conceptualVars, nonThreadSafeVars,
                      mementoVars, stateVars, observerVars, chainVars,
                      builderVars, compositeVars, commandVars>>
outsideLogger == <<singletonVars, conceptualVars, nonThreadSafeVars,
                   mementoVars, stateVars, observerVars, chainVars,
                   builderVars, compositeVars, commandVars>>
outsideConceptual == <<singletonVars, loggerVars, nonThreadSafeVars,
                       mementoVars, stateVars, observerVars, chainVars,
                       builderVars, compositeVars, commandVars>>
outsideNonThreadSafe == <<singletonVars, loggerVars, conceptualVars,
                          mementoVars, stateVars, observerVars, chainVars,
                          builderVars, compositeVars, commandVars>>
outsideMemento == <<singletonVars, loggerVars, conceptualVars,
                    nonThreadSafeVars, stateVars, observerVars, chainVars,
                    builderVars, compositeVars, commandVars>>
outsideState == <<singletonVars, loggerVars, conceptualVars,
                  nonThreadSafeVars, mementoVars, observerVars, chainVars,
                  builderVars, compositeVars, commandVars>>
outsideObserver == <<singletonVars, loggerVars, conceptualVars,
                     nonThreadSafeVars, mementoVars, stateVars, chainVars,
                     builderVars, compositeVars, commandVars>>
outsideChain == <<singletonVars, loggerVars, conceptualVars,
                  nonThreadSafeVars, mementoVars, stateVars, observerVars,
                  builderVars, compositeVars, commandVars>>
outsideBuilder == <<singletonVars, loggerVars, conceptualVars,
                    nonThreadSafeVars, mementoVars, stateVars, observerVars,
                    chainVars, compositeVars, commandVars>>
outsideComposite == <<singletonVars, loggerVars, conceptualVars,
                      nonThreadSafeVars, mementoVars, stateVars, observerVars,
                      chainVars, builderVars, commandVars>>
outsideCommand == <<singletonVars, loggerVars, conceptualVars,
                    nonThreadSafeVars, mementoVars, stateVars, observerVars,
                    chainVars, builderVars, compositeVars>>

(***************************************************************************)
(* std::mutex / std::lock_guard: the constructor of a lock_guard blocks    *)
(* until the mutex is free and then owns it; its destructor, at the end of *)
(* the scope, frees the mutex.                                             *)
(*                                                                         *)
(* Some steps come with a faulty variant, defined right before them: what  *)
(* the step would be with a plausible slip in the code.  The variants are  *)
(* used to see that the properties below do depend on the step.            *)
(***************************************************************************)

(***************************************************************************)
(* Singleton/Conceptual/ThreadSafe/main.cc                                 *)
(***************************************************************************)
Clients == 1..NClients

NoCalls == [c \in 1..2 |-> "none"]

SingletonInit ==
    /\ pinstance = NULL
    /\ Singleton_mutex_ = Free
    /\ heap = 0
    /\ gi_pc = [t \in Clients |-> "c128"]
    /\ gi_call = [t \in Clients |-> 0]
    /\ s1 = [t \in Clients |-> NULL]
    /\ s2 = [t \in Clients |-> NULL]
    /\ gi_out = [t \in Clients |-> "none"]
    /\ gi_first = [t \in Clients |-> NoCalls]
    /\ gi_locked = [t \in Clients |-> [c \in 1..2 |-> FALSE]]
    /\ gi_recheck = [t \in Clients |-> NoCalls]
    /\ gi_after = [t \in Clients |-> [c \in 1..2 |-> FALSE]]
    /\ gi_terminated = FALSE

\* what a null test of the atomic pointer reads
ReadMarker(p) == IF p = NULL THEN "null" ELSE "nonnull"

\* the threads in which `new Singleton` has thrown
Thrown == {t \in Clients : gi_pc[t] \in {"thrown", "unwound"}}

\* ClientCode, lines 128 and 129: call GetInstance
ClientCall(t) ==
    /\ ~gi_terminated
    /\ gi_pc[t] \in {"c128", "c129"}
    /\ gi_call' = [gi_call EXCEPT ![t] = IF gi_pc[t] = "c128" THEN 1 ELSE 2]
    /\ gi_after' = [gi_after EXCEPT
                       ![t][IF gi_pc[t] = "c128" THEN 1 ELSE 2] = Thrown # {}]
    /\ gi_pc' = [gi_pc EXCEPT ![t] = "g110"]
    /\ UNCHANGED <<outsideSingleton, pinstance, Singleton_mutex_, heap, s1, s2,
                   gi_out, gi_first, gi_locked, gi_recheck, gi_terminated>>

\* faulty variant of FirstCheck: no fast path, every call goes on to the lock
FirstCheckAlwaysSlow(t) ==
    /\ ~gi_terminated
    /\ gi_pc[t] = "g110"
    /\ gi_first' = [gi_first EXCEPT ![t][gi_call[t]] = ReadMarker(pinstance)]
    /\ gi_pc' = [gi_pc EXCEPT ![t] = "g112"]
    /\ UNCHANGED <<outsideSingleton, pinstance, Singleton_mutex_, heap, gi_call, s1,
                   s2, gi_out, gi_locked, gi_recheck, gi_after,
                   gi_terminated>>

\* GetInstance, line 110: if (pinstance == nullptr)
FirstCheck(t) ==
    /\ ~gi_terminated
    /\ gi_pc[t] = "g110"
    /\ gi_first' = [gi_first EXCEPT ![t][gi_call[t]] = ReadMarker(pinstance)]
    /\ gi_pc' = [gi_pc EXCEPT ![t] =
                    IF pinstance = NULL THEN "g112" ELSE "g118"]
    /\ UNCHANGED <<outsideSingleton, pinstance, Singleton_mutex_, heap, gi_call, s1,
                   s2, gi_out, gi_locked, gi_recheck, gi_after,
                   gi_terminated>>

\* faulty variant of SingletonLock: the guard is a temporary, destroyed at
\* once, so the thread goes on without owning the mutex
SingletonLockNoBlock(t) ==
    /\ ~gi_terminated
    /\ gi_pc[t] = "g112"
    /\ gi_locked' = [gi_locked EXCEPT ![t][gi_call[t]] = TRUE]
    /\ gi_pc' = [gi_pc EXCEPT ![t] = "g113"]
    /\ UNCHANGED <<outsideSingleton, pinstance, Singleton_mutex_, heap, gi_call, s1,
                   s2, gi_out, gi_first, gi_recheck, gi_after, gi_terminated>>

\* GetInstance, line 112: std::lock_guard<std::mutex> lock(mutex_);
SingletonLock(t) ==
    /\ ~gi_terminated
    /\ gi_pc[t] = "g112"
    /\ Singleton_mutex_ = Free
    /\ Singleton_mutex_' = t
    /\ gi_locked' = [gi_locked EXCEPT ![t][gi_call[t]] = TRUE]
    /\ gi_pc' = [gi_pc EXCEPT ![t] = "g113"]
    /\ UNCHANGED <<outsideSingleton, pinstance, heap, gi_call, s1, s2, gi_out,
                   gi_first, gi_recheck, gi_after, gi_terminated>>

\* faulty variant of SecondCheck: no second check, construct right away
SecondCheckSkipped(t) ==
    /\ ~gi_terminated
    /\ gi_pc[t] = "g113"
    /\ gi_pc' = [gi_pc EXCEPT ![t] = "g115"]
    /\ UNCHANGED <<outsideSingleton, pinstance, Singleton_mutex_, heap, gi_call, s1,
                   s2, gi_out, gi_first, gi_locked, gi_recheck, gi_after,
                   gi_terminated>>

\* GetInstance, line 113: if (pinstance == nullptr), under the lock
SecondCheck(t) ==
    /\ ~gi_terminated
    /\ gi_pc[t] = "g113"
    /\ gi_recheck' = [gi_recheck EXCEPT ![t][gi_call[t]] = ReadMarker(pinstance)]
    /\ gi_pc' = [gi_pc EXCEPT ![t] =
                    IF pinstance = NULL THEN "g115" ELSE "g117"]
    /\ UNCHANGED <<outsideSingleton, pinstance, Singleton_mutex_, heap, gi_call, s1,
                   s2, gi_out, gi_first, gi_locked, gi_after, gi_terminated>>

\* faulty variant of ConstructThrows: the allocation is `new (std::nothrow)`,
\* which gives nullptr back; it is stored and the call goes on
ConstructGivesNull(t) ==
    /\ ~gi_terminated
    /\ gi_pc[t] = "g115"
    /\ pinstance' = NULL
    /\ gi_pc' = [gi_pc EXCEPT ![t] = "g117"]
    /\ UNCHANGED <<outsideSingleton, Singleton_mutex_, heap, gi_call, s1, s2, gi_out,
                   gi_first, gi_locked, gi_recheck, gi_after, gi_terminated>>

\* GetInstance, line 115: `new Singleton` fails: operator new throws
\* std::bad_alloc; nothing is constructed and nothing is stored
ConstructThrows(t) ==
    /\ ~gi_terminated
    /\ gi_pc[t] = "g115"
    /\ gi_pc' = [gi_pc EXCEPT ![t] = "thrown"]
    /\ UNCHANGED <<outsideSingleton, pinstance, Singleton_mutex_, heap, gi_call, s1,
                   s2, gi_out, gi_first, gi_locked, gi_recheck, gi_after,
                   gi_terminated>>

\* the exception leaves GetInstance (no handler, lines 108-119) and ClientCode
\* (no handler, lines 126-138): where the stack is unwound before
\* std::terminate is called, the lock_guard of line 112 is destroyed
Unwind(t) ==
    /\ ~gi_terminated
    /\ gi_pc[t] = "thrown"
    /\ Singleton_mutex_' = Free
    /\ gi_pc' = [gi_pc EXCEPT ![t] = "unwound"]
    /\ UNCHANGED <<outsideSingleton, pinstance, heap, gi_call, s1, s2, gi_out,
                   gi_first, gi_locked, gi_recheck, gi_after, gi_terminated>>

\* no handler anywhere (main, lines 140-144, has none either): std::terminate
\* ends the process, with or without the stack having been unwound
Terminate(t) ==
    /\ ~gi_terminated
    /\ gi_pc[t] \in {"thrown", "unwound"}
    /\ gi_terminated' = TRUE
    /\ UNCHANGED <<outsideSingleton, pinstance, Singleton_mutex_, heap, gi_pc,
                   gi_call, s1, s2, gi_out, gi_first, gi_locked, gi_recheck,
                   gi_after>>

\* GetInstance, line 115: pinstance = new Singleton;
\* the constructor (lines 47-49) runs once per `new`, then the address is stored
Construct(t) ==
    /\ ~gi_terminated
    /\ gi_pc[t] = "g115"
    /\ heap' = heap + 1
    /\ pinstance' = heap + 1
    /\ gi_pc' = [gi_pc EXCEPT ![t] = "g117"]
    /\ UNCHANGED <<outsideSingleton, Singleton_mutex_, gi_call, s1, s2, gi_out,
                   gi_first, gi_locked, gi_recheck, gi_after, gi_terminated>>

\* GetInstance, line 117: the lock_guard goes out of scope
SingletonUnlock(t) ==
    /\ ~gi_terminated
    /\ gi_pc[t] = "g117"
    /\ Singleton_mutex_' = Free
    /\ gi_pc' = [gi_pc EXCEPT ![t] = "g118"]
    /\ UNCHANGED <<outsideSingleton, pinstance, heap, gi_call, s1, s2, gi_out,
                   gi_first, gi_locked, gi_recheck, gi_after, gi_terminated>>

\* GetInstance, line 118: return pinstance; (a fresh load of the atomic),
\* assigned to s1 (line 128) or s2 (line 129) of ClientCode
Return(t) ==
    /\ ~gi_terminated
    /\ gi_pc[t] = "g118"
    /\ IF gi_call[t] = 1
          THEN /\ s1' = [s1 EXCEPT ![t] = pinstance]
               /\ s2' = s2
               /\ gi_pc' = [gi_pc EXCEPT ![t] = "c129"]
          ELSE /\ s2' = [s2 EXCEPT ![t] = pinstance]
               /\ s1' = s1
               /\ gi_pc' = [gi_pc EXCEPT ![t] = "c130"]
    /\ UNCHANGED <<outsideSingleton, pinstance, Singleton_mutex_, heap, gi_call,
                   gi_out, gi_first, gi_locked, gi_recheck, gi_after,
                   gi_terminated>>

\* ClientCode, lines 130-137: compare s1 and s2 and print the verdict
Compare(t) ==
    /\ ~gi_terminated
    /\ gi_pc[t] = "c130"
    /\ gi_out' = [gi_out EXCEPT ![t] = IF s1[t] = s2[t] THEN "works" ELSE "failed"]
    /\ gi_pc' = [gi_pc EXCEPT ![t] = "done"]
    /\ UNCHANGED <<outsideSingleton, pinstance, Singleton_mutex_, heap, gi_call, s1,
                   s2, gi_first, gi_locked, gi_recheck, gi_after,
                   gi_terminated>>

SingletonNext ==
    \E t \in Clients :
        \/ ClientCall(t)
        \/ FirstCheck(t)
        \/ SingletonLock(t)
        \/ SecondCheck(t)
        \/ Construct(t)
        \/ ConstructThrows(t)
        \/ Unwind(t)
        \/ Terminate(t)
        \/ SingletonUnlock(t)
        \/ Return(t)
        \/ Compare(t)

(***************************************************************************)
(* Singleton/Conceptual/main.cc : the Singleton kept in a local static     *)
(***************************************************************************)
\* the address of the local static of GetInstance
ADDR_singleton == 1

ConceptualInit ==
    /\ cs_singleton = "none"
    /\ cs_process = "running"
    /\ cs_pc = [t \in Clients |-> "c108"]
    /\ cs_s1 = [t \in Clients |-> NULL]
    /\ cs_s2 = [t \in Clients |-> NULL]
    /\ cs_out = [t \in Clients |-> "none"]

\* ClientCode, lines 108 and 109: s1 / s2 = Singleton::GetInstance();
\* GetInstance (lines 89-99) initialises the local static the first time
\* control passes through its declaration and returns its address
ConceptualGetInstance(t) ==
    /\ cs_process = "running"
    /\ cs_pc[t] \in {"c108", "c109"}
    /\ cs_singleton' = IF cs_singleton = "none" THEN "alive" ELSE cs_singleton
    /\ IF cs_pc[t] = "c108"
          THEN /\ cs_s1' = [cs_s1 EXCEPT ![t] = ADDR_singleton]
               /\ cs_s2' = cs_s2
               /\ cs_pc' = [cs_pc EXCEPT ![t] = "c109"]
          ELSE /\ cs_s2' = [cs_s2 EXCEPT ![t] = ADDR_singleton]
               /\ cs_s1' = cs_s1
               /\ cs_pc' = [cs_pc EXCEPT ![t] = "c110"]
    /\ UNCHANGED <<outsideConceptual, cs_process, cs_out>>

\* ClientCode, lines 110-117: compare s1 and s2 and print the verdict
ConceptualCompare(t) ==
    /\ cs_process = "running"
    /\ cs_pc[t] = "c110"
    /\ cs_out' = [cs_out EXCEPT ![t] =
                     IF cs_s1[t] = cs_s2[t] THEN "works" ELSE "failed"]
    /\ cs_pc' = [cs_pc EXCEPT ![t] = "c118"]
    /\ UNCHANGED <<outsideConceptual, cs_singleton, cs_process, cs_s1, cs_s2>>

\* ClientCode, line 118: delete s1; the delete-expression runs the destructor
\* of the object s1 points to, the local static, and hands its address to
\* operator delete.  The object did not come from `new`, so what follows is
\* undefined: the allocator rejects the address and aborts the process, or
\* the call goes unnoticed and ClientCode returns.
ConceptualDelete(t) ==
    /\ cs_process = "running"
    /\ cs_pc[t] = "c118"
    /\ cs_singleton' = "destroyed"
    /\ \/ cs_process' = "aborted" /\ cs_pc' = cs_pc
       \/ cs_process' = cs_process /\ cs_pc' = [cs_pc EXCEPT ![t] = "done"]
    /\ UNCHANGED <<outsideConceptual, cs_s1, cs_s2, cs_out>>

\* main, lines 123-125: ClientCode has returned in every thread running it
\* and main returns; the destructors of the statics run at exit
ConceptualExit ==
    /\ cs_process = "running"
    /\ \A t \in Clients : cs_pc[t] = "done"
    /\ cs_process' = "exited"
    /\ cs_singleton' = "destroyed"
    /\ UNCHANGED <<outsideConceptual, cs_pc, cs_s1, cs_s2, cs_out>>

ConceptualNext ==
    \/ \E t \in Clients :
          \/ ConceptualGetInstance(t)
          \/ ConceptualCompare(t)
          \/ ConceptualDelete(t)
    \/ ConceptualExit

(***************************************************************************)
(* Singleton/Conceptual/NonThreadSafe/main.cc                              *)
(***************************************************************************)
NtsMain == 0
ThreadFoo == 1
ThreadBar == 2
NtsThreads == {ThreadFoo, ThreadBar}

\* the argument each thread passes to GetInstance (lines 117 and 126)
NtsValue == <<"FOO", "BAR">>

\* lines 133-135: what main prints first
NtsHeader == <<"If you see the same value, then singleton was reused (yay!\n",
               "If you see different values, then 2 singletons were created (booo!!)\n\n",
               "RESULT:\n">>

NonThreadSafeInit ==
    /\ nts_singleton_ = NULL
    /\ nts_heap = <<>>
    /\ nts_pc = [t \in {NtsMain} \cup NtsThreads |->
                    IF t = NtsMain THEN "m133" ELSE "unborn"]
    /\ nts_known = [t \in NtsThreads |-> NULL]
    /\ nts_local = [t \in NtsThreads |-> NULL]
    /\ nts_out = <<>>

\* main, lines 133-135: the three strings of the header
NtsMainPrint ==
    /\ nts_pc[NtsMain] = "m133"
    /\ nts_out' = nts_out \o NtsHeader
    /\ nts_pc' = [nts_pc EXCEPT ![NtsMain] = "m136"]
    /\ UNCHANGED <<outsideNonThreadSafe, nts_singleton_, nts_heap, nts_known,
                   nts_local>>

\* main, lines 136 and 137: std::thread t1(ThreadFoo); std::thread t2(ThreadBar);
NtsMainSpawn ==
    /\ nts_pc[NtsMain] \in {"m136", "m137"}
    /\ nts_pc' = IF nts_pc[NtsMain] = "m136"
                    THEN [nts_pc EXCEPT ![NtsMain] = "m137", ![ThreadFoo] = "t116"]
                    ELSE [nts_pc EXCEPT ![NtsMain] = "m138", ![ThreadBar] = "t116"]
    /\ UNCHANGED <<outsideNonThreadSafe, nts_singleton_, nts_heap, nts_known,
                   nts_local, nts_out>>

\* ThreadFoo / ThreadBar, lines 116-117 and 125-126: the sleep is over and
\* the thread calls GetInstance
NtsCall(t) ==
    /\ nts_pc[t] = "t116"
    /\ nts_pc' = [nts_pc EXCEPT ![t] = "g106"]
    /\ UNCHANGED <<outsideNonThreadSafe, nts_singleton_, nts_heap, nts_known,
                   nts_local, nts_out>>

\* GetInstance, line 106: if(singleton_==nullptr)
NtsCheck(t) ==
    /\ nts_pc[t] = "g106"
    /\ nts_known' = [nts_known EXCEPT ![t] = nts_singleton_]
    /\ nts_pc' = [nts_pc EXCEPT ![t] =
                     IF nts_singleton_ = NULL THEN "g107_new" ELSE "g109"]
    /\ UNCHANGED <<outsideNonThreadSafe, nts_singleton_, nts_heap, nts_local,
                   nts_out>>

\* GetInstance, line 107, right-hand side: new Singleton(value); the
\* constructor (lines 37-39) stores the value
NtsNew(t) ==
    /\ nts_pc[t] = "g107_new"
    /\ nts_heap' = Append(nts_heap, NtsValue[t])
    /\ nts_known' = [nts_known EXCEPT ![t] = Len(nts_heap) + 1]
    /\ nts_pc' = [nts_pc EXCEPT ![t] = "g107_store"]
    /\ UNCHANGED <<outsideNonThreadSafe, nts_singleton_, nts_local, nts_out>>

\* GetInstance, line 107, the assignment: singleton_ = <the new object>
NtsStore(t) ==
    /\ nts_pc[t] = "g107_store"
    /\ nts_singleton_' = nts_known[t]
    /\ nts_pc' = [nts_pc EXCEPT ![t] = "g109"]
    /\ UNCHANGED <<outsideNonThreadSafe, nts_heap, nts_known, nts_local,
                   nts_out>>

\* GetInstance, line 109: return singleton_; assigned to the local of lines
\* 117 / 126.  singleton_ is a plain pointer read and written by both threads
\* with no synchronisation, so the value returned is the one in memory now
\* or the one the thread already holds from line 106 or 107
NtsReturn(t) ==
    /\ nts_pc[t] = "g109"
    /\ \E p \in {nts_singleton_, nts_known[t]} :
          nts_local' = [nts_local EXCEPT ![t] = p]
    /\ nts_pc' = [nts_pc EXCEPT ![t] = "t118_value"]
    /\ UNCHANGED <<outsideNonThreadSafe, nts_singleton_, nts_heap, nts_known,
                   nts_out>>

\* ThreadFoo / ThreadBar, lines 118 and 127: std::cout << singleton->value()
NtsPrintValue(t) ==
    /\ nts_pc[t] = "t118_value"
    /\ nts_out' = Append(nts_out, nts_heap[nts_local[t]])
    /\ nts_pc' = [nts_pc EXCEPT ![t] = "t118_nl"]
    /\ UNCHANGED <<outsideNonThreadSafe, nts_singleton_, nts_heap, nts_known,
                   nts_local>>

\* ThreadFoo / ThreadBar, lines 118 and 127: << "\n", and the thread ends
NtsPrintNl(t) ==
    /\ nts_pc[t] = "t118_nl"
    /\ nts_out' = Append(nts_out, "\n")
    /\ nts_pc' = [nts_pc EXCEPT ![t] = "done"]
    /\ UNCHANGED <<outsideNonThreadSafe, nts_singleton_, nts_heap, nts_known,
                   nts_local>>

\* main, lines 138 and 139: t1.join(); t2.join();
NtsMainJoin ==
    /\ \/ nts_pc[NtsMain] = "m138" /\ nts_pc[ThreadFoo] = "done"
       \/ nts_pc[NtsMain] = "m139" /\ nts_pc[ThreadBar] = "done"
    /\ nts_pc' = [nts_pc EXCEPT ![NtsMain] =
                     IF nts_pc[NtsMain] = "m138" THEN "m139" ELSE "m141"]
    /\ UNCHANGED <<outsideNonThreadSafe, nts_singleton_, nts_heap, nts_known,
                   nts_local, nts_out>>

\* main, line 141: return 0;
NtsMainReturn ==
    /\ nts_pc[NtsMain] = "m141"
    /\ nts_pc' = [nts_pc EXCEPT ![NtsMain] = "exit"]
    /\ UNCHANGED <<outsideNonThreadSafe, nts_singleton_, nts_heap, nts_known,
                   nts_local, nts_out>>

NonThreadSafeNext ==
    \/ NtsMainPrint
    \/ NtsMainSpawn
    \/ NtsMainJoin
    \/ NtsMainReturn
    \/ \E t \in NtsThreads :
          \/ NtsCall(t)
          \/ NtsCheck(t)
          \/ NtsNew(t)
          \/ NtsStore(t)
          \/ NtsReturn(t)
          \/ NtsPrintValue(t)
          \/ NtsPrintNl(t)

(***************************************************************************)
(* Memento/Conceptual/main.cc                                              *)
(***************************************************************************)
\* line 209: the state the client constructs the Originator with,
\* "Super-duper-super-puper-super.", as its characters
InitialState ==
    <<"S", "u", "p", "e", "r", "-", "d", "u", "p", "e", "r", "-", "s", "u", "p",
      "e", "r", "-", "p", "u", "p", "e", "r", "-", "s", "u", "p", "e", "r", ".">>

\* GenerateRandomString(length), lines 97-109: length characters drawn from
\* alphanum; the model draws every character of one string alike
RandomChars == {"A", "z"}
GenerateRandomString(length) == {[i \in 1..length |-> c] : c \in RandomChars}

\* std::ctime(std::time(0)), lines 51-52: the time of day as text
Dates == {"Thu Jan  1 00:00:00 1970\n", "Thu Jan  1 00:00:01 1970\n"}

\* std::string::substr(0, n): the first n characters, fewer if there are fewer
Substr0(str, n) == SubSeq(str, 1, IF Len(str) < n THEN Len(str) ELSE n)

\* ConcreteMemento::GetName, lines 69-71
GetName(m) == m.date \o " / (" \o Concat(Substr0(m.state, 9)) \o "...)"

\* ClientCode, lines 209-210: the Originator (its constructor, lines 112-114,
\* prints the state) and the Caretaker have been constructed
MementoInit ==
    /\ Originator_state_ = InitialState
    /\ Caretaker_mementos_ = <<>>
    /\ mm_heap = <<>>
    /\ mm_out = <<"Originator: My initial state is: ", Concat(InitialState), "\n">>
    /\ mm_trace = <<>>

\* Caretaker::Backup, lines 178-181, with Originator::Save, lines 135-137,
\* and the constructor of ConcreteMemento, lines 49-53
Backup ==
    /\ Len(mm_trace) < MaxOps
    /\ \E date \in Dates :
          mm_heap' = Append(mm_heap, [state |-> Originator_state_, date |-> date])
    /\ Caretaker_mementos_' = Append(Caretaker_mementos_, Len(mm_heap) + 1)
    /\ mm_out' = Append(mm_out, "\nCaretaker: Saving Originator's state...\n")
    /\ mm_trace' = Append(mm_trace, "Backup")
    /\ UNCHANGED <<outsideMemento, Originator_state_>>

\* Originator::DoSomething, lines 124-128
DoSomething ==
    /\ Len(mm_trace) < MaxOps
    /\ \E random_string \in GenerateRandomString(30) :
          /\ Originator_state_' = random_string
          /\ mm_out' = mm_out \o
                <<"Originator: I'm doing something important.\n",
                  "Originator: and my state has changed to: ",
                  Concat(random_string), "\n">>
    /\ mm_trace' = Append(mm_trace, "DoSomething")
    /\ UNCHANGED <<outsideMemento, Caretaker_mementos_, mm_heap>>

\* faulty variant of Undo: the memento is read with back() and left in the
\* vector
UndoNoPop ==
    /\ Len(mm_trace) < MaxOps
    /\ IF Len(Caretaker_mementos_) = 0
          THEN /\ mm_trace' = Append(mm_trace, "UndoNothing")
               /\ UNCHANGED <<Originator_state_, Caretaker_mementos_, mm_out>>
          ELSE LET memento == mm_heap[Caretaker_mementos_[Len(Caretaker_mementos_)]]
               IN  /\ Caretaker_mementos_' = Caretaker_mementos_
                   /\ Originator_state_' = memento.state
                   /\ mm_out' = mm_out \o
                         <<"Caretaker: Restoring state to: ", GetName(memento), "\n",
                           "Originator: My state has changed to: ",
                           Concat(memento.state), "\n">>
                   /\ mm_trace' = Append(mm_trace, "Undo")
    /\ UNCHANGED <<outsideMemento, mm_heap>>

\* Caretaker::Undo, lines 182-194, with Originator::Restore, lines 143-146.
\* Restore copies a string and prints; it throws nothing short of memory
\* exhaustion, so the handler of lines 191-193 is not entered.
Undo ==
    /\ Len(mm_trace) < MaxOps
    /\ IF Len(Caretaker_mementos_) = 0
          THEN /\ mm_trace' = Append(mm_trace, "UndoNothing")
               /\ UNCHANGED <<Originator_state_, Caretaker_mementos_, mm_out>>
          ELSE LET memento == mm_heap[Caretaker_mementos_[Len(Caretaker_mementos_)]]
               IN  /\ Caretaker_mementos_' =
                         SubSeq(Caretaker_mementos_, 1, Len(Caretaker_mementos_) - 1)
                   /\ Originator_state_' = memento.state
                   /\ mm_out' = mm_out \o
                         <<"Caretaker: Restoring state to: ", GetName(memento), "\n",
                           "Originator: My state has changed to: ",
                           Concat(memento.state), "\n">>
                   /\ mm_trace' = Append(mm_trace, "Undo")
    /\ UNCHANGED <<outsideMemento, mm_heap>>

\* Caretaker::ShowHistory, lines 195-200: the names of the mementos, oldest
\* first, one per line
RECURSIVE HistoryLines(_)
HistoryLines(ms) ==
    IF ms = <<>> THEN <<>>
    ELSE <<GetName(mm_heap[Head(ms)]), "\n">> \o HistoryLines(Tail(ms))

ShowHistory ==
    /\ Len(mm_trace) < MaxOps
    /\ mm_out' = mm_out \o <<"Caretaker: Here's the list of mementos:\n">>
                        \o HistoryLines(Caretaker_mementos_)
    /\ mm_trace' = Append(mm_trace, "ShowHistory")
    /\ UNCHANGED <<outsideMemento, Originator_state_, Caretaker_mementos_,
                   mm_heap>>

\* the client: any sequence of calls (ClientCode, lines 211-222, is one)
MementoNext ==
    \/ Backup
    \/ DoSomething
    \/ Undo
    \/ ShowHistory

(***************************************************************************)
(* State/Conceptual/main.cc                                                *)
(***************************************************************************)
\* the address of the Context of ClientCode (line 144)
ADDR_context == 1

\* a State object fresh from `new`: context_ is not initialised by State
NewState(type) == [type |-> type, context_ |-> NULL, deleted |-> FALSE]

\* Context::TransitionTo(state), lines 78-84, for a state object that is the
\* last one of heap h: prints, deletes the current state if there is one,
\* stores the new one and sets its context_.  Gives the new heap.
TransitionTo(h, current) ==
    [a \in 1..Len(h) |->
        IF a = Len(h) THEN [h[a] EXCEPT !.context_ = ADDR_context]
        ELSE IF a = current THEN [h[a] EXCEPT !.deleted = TRUE]
        ELSE h[a]]

\* what TransitionTo prints (line 79); typeid(...).name() is taken to be the
\* name of the class
TransitionLine(type) == <<"Context: Transition to ", type, ".\n">>

\* ClientCode, line 144: new Context(new ConcreteStateA); the constructor
\* (lines 67-69) sets state_ to nullptr and calls TransitionTo
StateInit ==
    /\ st_heap = TransitionTo(<<NewState("ConcreteStateA")>>, NULL)
    /\ Context_state_ = 1
    /\ st_context = "alive"
    /\ st_out = TransitionLine("ConcreteStateA")
    /\ st_trace = <<>>

\* the dynamic type of the current state
CurrentType == st_heap[Context_state_].type

\* ConcreteStateA::Handle1 (lines 129-136) and ConcreteStateB::Handle2
\* (lines 122-126): two lines, then TransitionTo(new <the other class>)
HandleAndChange(name, request, to) ==
    /\ st_heap' = TransitionTo(Append(st_heap, NewState(to)), Context_state_)
    /\ Context_state_' = Len(st_heap) + 1
    /\ st_out' = st_out
                  \o <<name \o " handles " \o request \o ".\n",
                       name \o " wants to change the state of the context.\n">>
                  \o TransitionLine(to)

\* ConcreteStateA::Handle2 (lines 112-114) and ConcreteStateB::Handle1
\* (lines 119-121): one line
HandleOnly(name, request) ==
    /\ st_out' = Append(st_out, name \o " handles " \o request \o ".\n")
    /\ UNCHANGED <<st_heap, Context_state_>>

\* State::Handle1, dispatched on the dynamic type of the current state
Handle1 ==
    IF CurrentType = "ConcreteStateA"
       THEN HandleAndChange("ConcreteStateA", "request1", "ConcreteStateB")
       ELSE HandleOnly("ConcreteStateB", "request1")

\* State::Handle2, dispatched on the dynamic type of the current state
Handle2 ==
    IF CurrentType = "ConcreteStateA"
       THEN HandleOnly("ConcreteStateA", "request2")
       ELSE HandleAndChange("ConcreteStateB", "request2", "ConcreteStateA")

\* faulty variant of Request1: it forwards to Handle2
Request1CallsHandle2 ==
    /\ st_context = "alive"
    /\ Len(st_trace) < MaxRequests
    /\ Handle2
    /\ st_trace' = Append(st_trace, "Request1")
    /\ UNCHANGED <<outsideState, st_context>>

\* Context::Request1, lines 92-94
Request1 ==
    /\ st_context = "alive"
    /\ Len(st_trace) < MaxRequests
    /\ Handle1
    /\ st_trace' = Append(st_trace, "Request1")
    /\ UNCHANGED <<outsideState, st_context>>

\* Context::Request2, lines 95-97
Request2 ==
    /\ st_context = "alive"
    /\ Len(st_trace) < MaxRequests
    /\ Handle2
    /\ st_trace' = Append(st_trace, "Request2")
    /\ UNCHANGED <<outsideState, st_context>>

\* ClientCode, line 147: delete context; the destructor (lines 70-72) deletes
\* the current state
DeleteContext ==
    /\ st_context = "alive"
    /\ st_context' = "deleted"
    /\ st_heap' = [a \in 1..Len(st_heap) |->
                      IF a = Context_state_
                         THEN [st_heap[a] EXCEPT !.deleted = TRUE]
                         ELSE st_heap[a]]
    /\ UNCHANGED <<outsideState, Context_state_, st_out, st_trace>>

\* the client: any sequence of requests (ClientCode, lines 144-147, makes
\* Request1 and then Request2), then the deletion of the context
StateNext ==
    \/ Request1
    \/ Request2
    \/ DeleteContext

(***************************************************************************)
(* Observer/Conceptual/main.cc                                             *)
(***************************************************************************)
\* the messages the client passes to CreateMessage (lines 146 and 149)
Messages == {"Hello World! :D", "The weather is hot today! :p"}

\* ClientCode, line 139: new Subject
ObserverInit ==
    /\ list_observer_ = <<>>
    /\ Subject_message_ = ""
    /\ static_number_ = 0
    /\ ob_heap = <<>>
    /\ ob_out = <<>>
    /\ ob_trace = <<>>
    /\ ob_updates = <<>>

\* Subject::Attach, lines 61-63: list_observer_.push_back(observer)
ListAttach(list, observer) == Append(list, observer)

\* faulty variant of ListDetach: the first entry found is erased, not all
RECURSIVE ListDetachFirst(_, _)
ListDetachFirst(list, observer) ==
    IF list = <<>> THEN <<>>
    ELSE IF Head(list) = observer THEN Tail(list)
    ELSE <<Head(list)>> \o ListDetachFirst(Tail(list), observer)

\* Subject::Detach, lines 64-66: list_observer_.remove(observer) erases
\* every entry equal to observer
ListDetach(list, observer) == SelectSeq(list, LAMBDA o : o # observer)

\* Observer::PrintInfo, lines 125-127, for an observer that got the message
PrintInfo(observer, message) ==
    <<"Observer \"", DecimalString(ob_heap[observer].number_),
      "\": a new message is available --> ", message, "\n">>

\* what the loop of Subject::Notify, lines 70-73, prints over a list
RECURSIVE UpdateLines(_, _)
UpdateLines(list, message) ==
    IF list = <<>> THEN <<>>
    ELSE PrintInfo(Head(list), message) \o UpdateLines(Tail(list), message)

\* what Subject::Notify prints: HowManyObserver, lines 80-82, then the loop
NotifyLines(message) ==
    <<"There are ", DecimalString(Len(list_observer_)),
      " observers in the list.\n">>
    \o UpdateLines(list_observer_, message)

\* Subject::Notify, lines 67-74, with Observer::Update, lines 117-120, once
\* the message is `message`: every entry of the list, from first to last,
\* gets the message
Notify(message) ==
    /\ ob_heap' = [a \in 1..Len(ob_heap) |->
                     IF \E i \in 1..Len(list_observer_) : list_observer_[i] = a
                        THEN [ob_heap[a] EXCEPT !.message_from_subject_ = message]
                        ELSE ob_heap[a]]
    /\ ob_updates' = Append(ob_updates,
                            [i \in 1..Len(list_observer_) |->
                                [observer |-> list_observer_[i], message |-> message]])

\* Observer::Observer, lines 108-112, called with the Subject (lines 140-142,
\* 150, 153): attaches itself, prints and takes the next number
NewObserver ==
    /\ Len(ob_trace) < MaxSubjectOps
    /\ Len(ob_heap) < MaxObservers
    /\ list_observer_' = ListAttach(list_observer_, Len(ob_heap) + 1)
    /\ static_number_' = static_number_ + 1
    /\ ob_heap' = Append(ob_heap, [number_ |-> static_number_ + 1,
                                    message_from_subject_ |-> ""])
    /\ ob_out' = ob_out \o <<"Hi, I'm the Observer \"",
                              DecimalString(static_number_ + 1), "\".\n">>
    /\ ob_trace' = Append(ob_trace, [op |-> "Attach", arg |-> Len(ob_heap) + 1])
    /\ UNCHANGED <<outsideObserver, Subject_message_, ob_updates>>

\* Subject::Attach, lines 61-63, called by the client with an Observer
Attach(observer) ==
    /\ Len(ob_trace) < MaxSubjectOps
    /\ list_observer_' = ListAttach(list_observer_, observer)
    /\ ob_trace' = Append(ob_trace, [op |-> "Attach", arg |-> observer])
    /\ UNCHANGED <<outsideObserver, Subject_message_, static_number_, ob_heap,
                   ob_out, ob_updates>>

\* Subject::Detach, lines 64-66, called by the client with an Observer
Detach(observer) ==
    /\ Len(ob_trace) < MaxSubjectOps
    /\ list_observer_' = ListDetach(list_observer_, observer)
    /\ ob_trace' = Append(ob_trace, [op |-> "Detach", arg |-> observer])
    /\ UNCHANGED <<outsideObserver, Subject_message_, static_number_, ob_heap,
                   ob_out, ob_updates>>

\* Observer::RemoveMeFromTheList, lines 121-124
RemoveMeFromTheList(observer) ==
    /\ Len(ob_trace) < MaxSubjectOps
    /\ list_observer_' = ListDetach(list_observer_, observer)
    /\ ob_out' = ob_out \o <<"Observer \"", DecimalString(ob_heap[observer].number_),
                              "\" removed from the list.\n">>
    /\ ob_trace' = Append(ob_trace, [op |-> "Detach", arg |-> observer])
    /\ UNCHANGED <<outsideObserver, Subject_message_, static_number_, ob_heap,
                   ob_updates>>

\* Subject::CreateMessage, lines 76-79
CreateMessage(message) ==
    /\ Len(ob_trace) < MaxSubjectOps
    /\ Subject_message_' = message
    /\ Notify(message)
    /\ ob_out' = ob_out \o NotifyLines(message)
    /\ ob_trace' = Append(ob_trace, [op |-> "Notify", arg |-> message])
    /\ UNCHANGED <<outsideObserver, list_observer_, static_number_>>

\* Subject::SomeBusinessLogic, lines 95-99
SomeBusinessLogic ==
    /\ Len(ob_trace) < MaxSubjectOps
    /\ Subject_message_' = "change message message"
    /\ Notify("change message message")
    /\ ob_out' = ob_out \o NotifyLines("change message message")
                        \o <<"I'm about to do some thing important\n">>
    /\ ob_trace' = Append(ob_trace,
                          [op |-> "Notify", arg |-> "change message message"])
    /\ UNCHANGED <<outsideObserver, list_observer_, static_number_>>

\* the client: any sequence of calls on the Subject and on the Observers
\* constructed so far (ClientCode, lines 139-159, is one)
ObserverNext ==
    \/ NewObserver
    \/ \E observer \in 1..Len(ob_heap) :
          \/ Attach(observer)
          \/ Detach(observer)
          \/ RemoveMeFromTheList(observer)
    \/ \E message \in Messages : CreateMessage(message)
    \/ SomeBusinessLogic

(***************************************************************************)
(* ChainOfResponsibility/Conceptual/main.cc                                *)
(***************************************************************************)
\* the concrete handler classes, lines 73-102
HandlerTypes == {"Monkey", "Squirrel", "Dog"}

\* the requests: the food of ClientCode, line 112, and the one the Dog takes
Requests == {"Nut", "Banana", "Cup of coffee", "MeatBall"}

\* no call of Handle has been made yet
NoCall == [entry |-> NULL, request |-> "", returned |-> TRUE, result |-> "",
           consulted |-> <<>>]

\* main before line 129: no handler constructed, nothing printed
ChainInit ==
    /\ ch_heap = <<>>
    /\ ch_out = <<>>
    /\ ch_call = NoCall
    /\ ch_ops = 0

\* the tests of lines 76, 86 and 96
Recognises(type, request) ==
    \/ type = "Monkey" /\ request = "Banana"
    \/ type = "Squirrel" /\ request = "Nut"
    \/ type = "Dog" /\ request = "MeatBall"

\* the values returned at lines 77, 87 and 97
Response(type, request) == Concat(<<type, ": I'll eat the ", request, ".\n">>)

\* Handle of the handler at address h, lines 75-81, 85-91 and 95-101, with
\* AbstractHandler::Handle, lines 58-64.  calls holds the handlers whose
\* Handle is running, outermost first.  A handler met again with the same
\* request does what it did the first time, so the recursion has no end and
\* the call does not return.
RECURSIVE Handle(_, _, _, _)
Handle(handlers, h, request, calls) ==
    LET running == Append(calls, h)
    IN  IF \E i \in 1..Len(calls) : calls[i] = h
        THEN [returned |-> FALSE, result |-> "", consulted |-> calls]
        ELSE IF Recognises(handlers[h].type, request)
        THEN [returned |-> TRUE,
              result |-> Response(handlers[h].type, request),
              consulted |-> running]
        ELSE IF handlers[h].next_handler_ # NULL
        THEN Handle(handlers, handlers[h].next_handler_, request, running)
        ELSE [returned |-> TRUE, result |-> "", consulted |-> running]

\* the last call of Handle has returned (or none was made)
ChainRunning == ch_call.returned /\ ch_ops < MaxChainOps

\* main, lines 129-131: new MonkeyHandler, new SquirrelHandler, new
\* DogHandler; AbstractHandler(), line 45, sets next_handler_ to nullptr
NewHandler(type) ==
    /\ ChainRunning
    /\ ch_heap' = Append(ch_heap, [type |-> type, next_handler_ |-> NULL])
    /\ ch_ops' = ch_ops + 1
    /\ UNCHANGED <<outsideChain, ch_out, ch_call>>

\* AbstractHandler::SetNext, lines 47-57, of the handler at address h
SetNext(h, handler) ==
    /\ ChainRunning
    /\ ch_heap' = [ch_heap EXCEPT ![h].next_handler_ = handler]
    /\ ch_ops' = ch_ops + 1
    /\ UNCHANGED <<outsideChain, ch_out, ch_call>>

\* faulty variant of Ask: the request is handed to the handler constructed
\* first, whatever handler the client passed
AskHead(h, f) ==
    LET call == Handle(ch_heap, 1, f, <<>>)
    IN  /\ ChainRunning
        /\ ch_call' = [entry |-> h, request |-> f, returned |-> call.returned,
                       result |-> call.result, consulted |-> call.consulted]
        /\ ch_out' = ch_out \o <<"Client: Who wants a ", f, "?\n">>
                     \o (IF ~call.returned THEN <<>>
                         ELSE IF call.result # "" THEN <<"  ", call.result>>
                         ELSE <<"  ", f, " was left untouched.\n">>)
        /\ ch_ops' = ch_ops + 1
        /\ UNCHANGED <<outsideChain, ch_heap>>

\* the body of the loop of ClientCode, lines 114-120, with the handler at
\* address h and the food f
Ask(h, f) ==
    LET call == Handle(ch_heap, h, f, <<>>)
    IN  /\ ChainRunning
        /\ ch_call' = [entry |-> h, request |-> f, returned |-> call.returned,
                       result |-> call.result, consulted |-> call.consulted]
        /\ ch_out' = ch_out \o <<"Client: Who wants a ", f, "?\n">>
                     \o (IF ~call.returned THEN <<>>
                         ELSE IF call.result # "" THEN <<"  ", call.result>>
                         ELSE <<"  ", f, " was left untouched.\n">>)
        /\ ch_ops' = ch_ops + 1
        /\ UNCHANGED <<outsideChain, ch_heap>>

\* the client: any sequence of constructions, SetNext calls and requests
\* (main, lines 129-145, is one)
ChainNext ==
    \/ \E type \in HandlerTypes : NewHandler(type)
    \/ \E h \in 1..Len(ch_heap), handler \in 0..Len(ch_heap) :
          SetNext(h, handler)
    \/ \E h \in 1..Len(ch_heap), f \in Requests : Ask(h, f)

(***************************************************************************)
(* Builder/Conceptual/main.cc                                              *)
(***************************************************************************)
\* Reset, lines 97-99, on a heap of products: new Product1()
NewProduct(products) == Append(products, [parts_ |-> <<>>, deleted |-> FALSE])

\* ClientCode, line 236: new ConcreteBuilder1(), whose constructor, lines
\* 89-91, calls Reset
BuilderInit ==
    /\ bd_heap = NewProduct(<<>>)
    /\ bd_product = 1
    /\ bd_builder = "alive"
    /\ bd_out = <<>>
    /\ bd_trace = <<>>
    /\ bd_got = <<>>
    /\ bd_ops = 0

\* the client may make another call on the builder
BuilderRunning == bd_builder = "alive" /\ bd_ops < MaxBuilderOps

\* the strings pushed at lines 108, 112 and 116
PartA1 == "PartA1"
PartB1 == "PartB1"
PartC1 == "PartC1"

\* this->product->parts_.push_back(part) for each part of parts in turn
PushBack(products, product, parts) ==
    [products EXCEPT ![product].parts_ = @ \o parts]

\* one or more Produce* calls reach the builder: calls names them, parts
\* holds what they push
Produce(calls, parts) ==
    /\ BuilderRunning
    /\ bd_heap' = PushBack(bd_heap, bd_product, parts)
    /\ bd_trace' = bd_trace \o calls
    /\ bd_ops' = bd_ops + 1
    /\ UNCHANGED <<outsideBuilder, bd_product, bd_builder, bd_out, bd_got>>

\* ConcreteBuilder1::ProducePartA, lines 107-109
ProducePartA == Produce(<<"ProducePartA">>, <<PartA1>>)

\* ConcreteBuilder1::ProducePartB, lines 111-113
ProducePartB == Produce(<<"ProducePartB">>, <<PartB1>>)

\* ConcreteBuilder1::ProducePartC, lines 115-117
ProducePartC == Produce(<<"ProducePartC">>, <<PartC1>>)

\* Director::BuildMinimalViableProduct, lines 209-211, with the builder set
\* at line 237
BuildMinimalViableProduct == Produce(<<"ProducePartA">>, <<PartA1>>)

\* Director::BuildFullFeaturedProduct, lines 213-217
BuildFullFeaturedProduct ==
    Produce(<<"ProducePartA", "ProducePartB", "ProducePartC">>,
            <<PartA1, PartB1, PartC1>>)

\* faulty variant of GetProduct: the call of Reset is missing
GetProductNoReset ==
    /\ BuilderRunning
    /\ bd_got' = Append(bd_got, [product |-> bd_product,
                                 parts |-> bd_heap[bd_product].parts_])
    /\ bd_trace' = Append(bd_trace, "GetProduct")
    /\ bd_ops' = bd_ops + 1
    /\ UNCHANGED <<outsideBuilder, bd_product, bd_heap, bd_builder, bd_out>>

\* ConcreteBuilder1::GetProduct, lines 161-165: result = product; Reset();
\* return result
GetProduct ==
    /\ BuilderRunning
    /\ bd_got' = Append(bd_got, [product |-> bd_product,
                                 parts |-> bd_heap[bd_product].parts_])
    /\ bd_heap' = NewProduct(bd_heap)
    /\ bd_product' = Len(bd_heap) + 1
    /\ bd_trace' = Append(bd_trace, "GetProduct")
    /\ bd_ops' = bd_ops + 1
    /\ UNCHANGED <<outsideBuilder, bd_builder, bd_out>>

\* what the loop of Product1::ListParts, lines 40-46, prints for the parts
\* from place i on: a part equal to the last one is printed without ", "
RECURSIVE PartsFrom(_, _)
PartsFrom(parts, i) ==
    IF i > Len(parts) THEN <<>>
    ELSE (IF parts[i] = parts[Len(parts)] THEN <<parts[i]>>
          ELSE <<parts[i], ", ">>) \o PartsFrom(parts, i + 1)

\* the products the client holds: returned by GetProduct and not deleted
Held == {g \in 1..Len(bd_got) : ~bd_heap[bd_got[g].product].deleted}

\* Product1::ListParts, lines 38-48, called by the client on a product it
\* holds (lines 242, 249, 260)
ListParts(g) ==
    /\ BuilderRunning
    /\ bd_out' = bd_out \o <<"Product parts: ">>
                        \o PartsFrom(bd_heap[bd_got[g].product].parts_, 1)
                        \o <<"\n\n">>
    /\ bd_ops' = bd_ops + 1
    /\ UNCHANGED <<outsideBuilder, bd_product, bd_heap, bd_builder, bd_trace,
                   bd_got>>

\* ClientCode, lines 243, 250 and 261: delete p
DeleteProduct(g) ==
    /\ BuilderRunning
    /\ bd_heap' = [bd_heap EXCEPT ![bd_got[g].product].deleted = TRUE]
    /\ bd_ops' = bd_ops + 1
    /\ UNCHANGED <<outsideBuilder, bd_product, bd_builder, bd_out, bd_trace,
                   bd_got>>

\* ClientCode, line 263: delete builder; the destructor, lines 93-95,
\* deletes the product under construction
DeleteBuilder ==
    /\ BuilderRunning
    /\ bd_builder' = "deleted"
    /\ bd_heap' = [bd_heap EXCEPT ![bd_product].deleted = TRUE]
    /\ bd_ops' = bd_ops + 1
    /\ UNCHANGED <<outsideBuilder, bd_product, bd_out, bd_trace, bd_got>>

\* the client: any sequence of calls on the builder, the director and the
\* products it holds (ClientCode, lines 236-263, is one)
BuilderNext ==
    \/ ProducePartA
    \/ ProducePartB
    \/ ProducePartC
    \/ BuildMinimalViableProduct
    \/ BuildFullFeaturedProduct
    \/ GetProduct
    \/ \E g \in Held : ListParts(g) \/ DeleteProduct(g)
    \/ DeleteBuilder

(***************************************************************************)
(* Composite/Conceptual/main.cc                                            *)
(***************************************************************************)
\* the concrete component classes, lines 97-102 and 112-166
ComponentTypes == {"Leaf", "Composite"}

\* no call of Operation has been made yet
NoOperation == [component |-> NULL, returned |-> TRUE, result |-> ""]

\* main before line 204: no component constructed, nothing printed
CompositeInit ==
    /\ cp_heap = <<>>
    /\ cp_out = <<>>
    /\ cp_call = NoOperation
    /\ cp_ops = 0

\* Operation of the component c: Leaf::Operation, lines 99-101, and
\* Composite::Operation, lines 155-165, whose loop OperationOfChildren
\* carries out from the child at place i on.  calls holds the components
\* whose Operation is running; a component met again does what it did the
\* first time, so the recursion has no end and the call does not return.
RECURSIVE Operation(_, _, _)
RECURSIVE OperationOfChildren(_, _, _, _)
Operation(components, c, calls) ==
    IF c \in calls THEN [returned |-> FALSE, result |-> ""]
    ELSE IF components[c].type = "Leaf"
    THEN [returned |-> TRUE, result |-> "Leaf"]
    ELSE LET loop == OperationOfChildren(components, c, 1, calls \cup {c})
         IN  [returned |-> loop.returned,
              result |-> Concat(<<"Branch(", loop.result, ")">>)]

\* lines 157-163: a child equal to children_.back() adds its result, any
\* other child its result and "+"
OperationOfChildren(components, c, i, calls) ==
    LET children_ == components[c].children_
    IN  IF i > Len(children_) THEN [returned |-> TRUE, result |-> ""]
        ELSE LET child == Operation(components, children_[i], calls)
                 rest == OperationOfChildren(components, c, i + 1, calls)
             IN  IF ~child.returned \/ ~rest.returned
                 THEN [returned |-> FALSE, result |-> ""]
                 ELSE [returned |-> TRUE,
                       result |->
                          IF children_[i] = children_[Len(children_)]
                          THEN child.result \o rest.result
                          ELSE Concat(<<child.result, "+", rest.result>>)]

\* the last call of Operation has returned (or none was made)
TreeRunning == cp_call.returned /\ cp_ops < MaxTreeOps

\* main, lines 204 and 214-222: new Leaf, new Composite
NewComponent(type) ==
    /\ TreeRunning
    /\ cp_heap' = Append(cp_heap, [type |-> type, parent_ |-> NULL,
                                   children_ |-> <<>>])
    /\ cp_ops' = cp_ops + 1
    /\ UNCHANGED <<outsideComposite, cp_out, cp_call>>

\* Composite::Add, lines 127-130, with Component::SetParent, lines 42-44;
\* Component::Add, line 61, which a Leaf inherits, does nothing
Add(c, component) ==
    /\ TreeRunning
    /\ cp_heap' = IF cp_heap[c].type = "Composite"
                  THEN LET pushed == [cp_heap EXCEPT ![c].children_ =
                                         Append(@, component)]
                       IN  [pushed EXCEPT ![component].parent_ = c]
                  ELSE cp_heap
    /\ cp_ops' = cp_ops + 1
    /\ UNCHANGED <<outsideComposite, cp_out, cp_call>>

\* Composite::Remove, lines 137-140: children_.remove erases every entry
\* equal to component; Component::Remove, line 62, does nothing
Remove(c, component) ==
    /\ TreeRunning
    /\ cp_heap' = IF cp_heap[c].type = "Composite"
                  THEN LET erased == [cp_heap EXCEPT ![c].children_ =
                                         SelectSeq(@, LAMBDA x : x # component)]
                       IN  [erased EXCEPT ![component].parent_ = NULL]
                  ELSE cp_heap
    /\ cp_ops' = cp_ops + 1
    /\ UNCHANGED <<outsideComposite, cp_out, cp_call>>

\* ClientCode, lines 172-176: std::cout << "RESULT: " << component->Operation()
ClientOperation(component) ==
    LET call == Operation(cp_heap, component, {})
    IN  /\ TreeRunning
        /\ cp_call' = [component |-> component, returned |-> call.returned,
                       result |-> call.result]
        /\ cp_out' = IF call.returned
                     THEN cp_out \o <<"RESULT: ", call.result>>
                     ELSE cp_out
        /\ cp_ops' = cp_ops + 1
        /\ UNCHANGED <<outsideComposite, cp_heap>>

\* the client: any sequence of constructions, Add and Remove calls and
\* calls of Operation (main, lines 204-232, is one)
CompositeNext ==
    \/ \E type \in ComponentTypes : NewComponent(type)
    \/ \E c \in 1..Len(cp_heap), component \in 1..Len(cp_heap) :
          \/ Add(c, component)
          \/ Remove(c, component)
    \/ \E component \in 1..Len(cp_heap) : ClientOperation(component)

(***************************************************************************)
(* Command/Conceptual/main.cc                                              *)
(***************************************************************************)
\* a pointer value that is not null and points at no Command
Garbage == -2

\* the value of a pointer member that no constructor and no initialiser
\* sets (lines 120 and 124; Invoker declares no constructor and main, line
\* 169, writes `new Invoker`): indeterminate, so null or not
Indeterminate == {NULL, Garbage}

NoRun == [events |-> <<>>, returned |-> TRUE]

\* main, line 169: new Invoker
CommandInit ==
    /\ Invoker_on_start_ \in Indeterminate
    /\ Invoker_on_finish_ \in Indeterminate
    /\ cm_heap = <<>>
    /\ cm_process = "running"
    /\ cm_out = <<>>
    /\ cm_set = [start |-> FALSE, finish |-> FALSE]
    /\ cm_run = NoRun
    /\ cm_ops = 0

\* the client may make another call
InvokerRunning == cm_process = "running" /\ cm_ops < MaxInvokerOps

\* main, line 170: new SimpleCommand("Say Hi!") (constructor, lines 39-40)
NewSimpleCommand ==
    /\ InvokerRunning
    /\ cm_heap' = Append(cm_heap, [type |-> "SimpleCommand",
                                   pay_load_ |-> "Say Hi!", a_ |-> "",
                                   b_ |-> ""])
    /\ cm_ops' = cm_ops + 1
    /\ UNCHANGED <<outsideCommand, Invoker_on_start_, Invoker_on_finish_,
                   cm_process, cm_out, cm_set, cm_run>>

\* main, line 172: new ComplexCommand(receiver, "Send email", "Save report")
\* (constructor, lines 94-95)
NewComplexCommand ==
    /\ InvokerRunning
    /\ cm_heap' = Append(cm_heap, [type |-> "ComplexCommand",
                                   pay_load_ |-> "", a_ |-> "Send email",
                                   b_ |-> "Save report"])
    /\ cm_ops' = cm_ops + 1
    /\ UNCHANGED <<outsideCommand, Invoker_on_start_, Invoker_on_finish_,
                   cm_process, cm_out, cm_set, cm_run>>

\* Invoker::SetOnStart, lines 136-138
SetOnStart(command) ==
    /\ InvokerRunning
    /\ Invoker_on_start_' = command
    /\ cm_set' = [cm_set EXCEPT !.start = TRUE]
    /\ cm_ops' = cm_ops + 1
    /\ UNCHANGED <<outsideCommand, Invoker_on_finish_, cm_heap, cm_process,
                   cm_out, cm_run>>

\* Invoker::SetOnFinish, lines 139-141
SetOnFinish(command) ==
    /\ InvokerRunning
    /\ Invoker_on_finish_' = command
    /\ cm_set' = [cm_set EXCEPT !.finish = TRUE]
    /\ cm_ops' = cm_ops + 1
    /\ UNCHANGED <<outsideCommand, Invoker_on_start_, cm_heap, cm_process,
                   cm_out, cm_run>>

\* what Execute of the command at address k prints: SimpleCommand::Execute,
\* lines 41-43, and ComplexCommand::Execute, lines 101-105, with
\* Receiver::DoSomething and Receiver::DoSomethingElse, lines 57-62
ExecuteLines(k) ==
    IF cm_heap[k].type = "SimpleCommand"
    THEN <<"SimpleCommand: See, I can do simple things like printing (",
           cm_heap[k].pay_load_, ")\n">>
    ELSE <<"ComplexCommand: Complex stuff should be done by a receiver object.\n",
           "Receiver: Working on (", cm_heap[k].a_, ".)\n",
           "Receiver: Also working on (", cm_heap[k].b_, ".)\n">>

\* the marks DoSomethingImportant leaves in cm_run
Executed(command) == [what |-> "Execute", command |-> command]
OwnWork == [what |-> "work", command |-> NULL]

\* Invoker::DoSomethingImportant, lines 150-160.  A call of Execute through
\* a pointer that points at no Command ends the process.
DoSomethingImportant ==
    LET begin == <<"Invoker: Does anybody want something done before I begin?\n">>
        work == <<"Invoker: ...doing something really important...\n",
                  "Invoker: Does anybody want something done after I finish?\n">>
    IN  /\ InvokerRunning
        /\ cm_ops' = cm_ops + 1
        /\ IF Invoker_on_start_ = Garbage
           THEN /\ cm_out' = cm_out \o begin
                /\ cm_run' = [events |-> <<Executed(Garbage)>>,
                              returned |-> FALSE]
                /\ cm_process' = "crashed"
           ELSE LET first == IF Invoker_on_start_ # NULL
                             THEN <<Executed(Invoker_on_start_)>> ELSE <<>>
                    lines == cm_out \o begin
                             \o (IF Invoker_on_start_ # NULL
                                 THEN ExecuteLines(Invoker_on_start_)
                                 ELSE <<>>)
                             \o work
                IN  IF Invoker_on_finish_ = Garbage
                    THEN /\ cm_out' = lines
                         /\ cm_run' = [events |-> first \o <<OwnWork,
                                                    Executed(Garbage)>>,
                                       returned |-> FALSE]
                         /\ cm_process' = "crashed"
                    ELSE /\ cm_out' = lines
                                      \o (IF Invoker_on_finish_ # NULL
                                          THEN ExecuteLines(Invoker_on_finish_)
                                          ELSE <<>>)
                         /\ cm_run' = [events |-> first \o <<OwnWork>>
                                          \o (IF Invoker_on_finish_ # NULL
                                              THEN <<Executed(Invoker_on_finish_)>>
                                              ELSE <<>>),
                                       returned |-> TRUE]
                         /\ cm_process' = cm_process
        /\ UNCHANGED <<outsideCommand, Invoker_on_start_, Invoker_on_finish_,
                       cm_heap, cm_set>>

\* main, line 175: delete invoker; Invoker::~Invoker, lines 131-134, deletes
\* both commands.  Deleting through a pointer that points at no object, or
\* the same object twice, ends the process.
DeleteInvoker ==
    /\ InvokerRunning
    /\ cm_process' = IF \/ Garbage \in {Invoker_on_start_, Invoker_on_finish_}
                        \/ /\ Invoker_on_start_ # NULL
                           /\ Invoker_on_start_ = Invoker_on_finish_
                     THEN "crashed" ELSE "deleted"
    /\ cm_ops' = cm_ops + 1
    /\ UNCHANGED <<outsideCommand, Invoker_on_start_, Invoker_on_finish_,
                   cm_heap, cm_out, cm_set, cm_run>>

\* the client: any sequence of calls on the Invoker (main, lines 169-175,
\* is one)
CommandNext ==
    \/ NewSimpleCommand
    \/ NewComplexCommand
    \/ \E command \in 0..Len(cm_heap) :
          \/ SetOnStart(command)
          \/ SetOnFinish(command)
    \/ DoSomethingImportant
    \/ DeleteInvoker

(***************************************************************************)
(* Singleton/RealWorld/main.cc : the Logger                                *)
(***************************************************************************)
\* enum class Level : unsigned
debug == 0
info == 1
warning == 2
error == 3
Levels == {debug, info, warning, error}

\* faulty variant of to_string: the case of warning is missing from the switch
to_stringNoWarning(level) ==
    CASE level = debug -> "[DEBUG]"
      [] level = info -> "[INFO]"
      [] level = error -> "[ERROR]"
      [] OTHER -> "[LEVEL]"

\* std::string to_string(Logger::Level)
to_string(level) ==
    CASE level = debug -> "[DEBUG]"
      [] level = info -> "[INFO]"
      [] level = warning -> "[WARNING]"
      [] level = error -> "[ERROR]"
      [] OTHER -> "[LEVEL]"

\* what the constructor, the destructor and main print
StartUpBanner == "****\tLOGGER\tSTART UP\t****"
ShutDownBanner == "****\tLOGGER\tSHUT DOWN\t****"
MainHeader == "//// Logger Singleton ////\n"

\* the message texts of the four logging threads of main
LogText == <<"This is just a simple development check.",
             "Here are some extra details.",
             "Be careful with this potential issue.",
             "A major problem has caused a fatal stoppage.">>

\* the level each logging thread of main passes (t1 leaves the default, debug)
LogLevel == <<debug, info, warning, error>>

\* the static members as defined at lines 108-111, before any call
LoggerStatics ==
    /\ Logger_mutex_ = Free
    /\ Logger_os_ = <<>>
    /\ Logger_count_ = 0
    /\ Logger_level_ = debug
    /\ Logger_instance = FALSE
    /\ lg_issued = 0
    /\ lg_waiting = <<>>
    /\ lg_acq = <<>>

NoArg == [op |-> "none", level |-> debug, message |-> ""]

\* a thread calls Logger::level or Logger::log with arguments a and will
\* continue at ret when the call returns
Issue(t, a, ret) ==
    /\ lg_arg' = [lg_arg EXCEPT ![t] = a]
    /\ lg_ret' = [lg_ret EXCEPT ![t] = ret]
    /\ lg_pc' = [lg_pc EXCEPT ![t] = IF a.op = "level" THEN "L139" ELSE "L176"]
    /\ lg_issued' = lg_issued + 1
    /\ lg_waiting' = Append(lg_waiting, t)

\* history: thread t's call has passed its lock_guard; the entry keeps the
\* arguments, the length of the output at that moment, whether a call issued
\* earlier was still waiting, what became of the call and whether it has
\* returned
Acquired(t) ==
    /\ lg_acq' = Append(lg_acq, [op |-> lg_arg[t].op, level |-> lg_arg[t].level,
                                 message |-> lg_arg[t].message,
                                 os0 |-> Len(Logger_os_),
                                 overtook |-> Head(lg_waiting) # t,
                                 result |-> "pending", done |-> FALSE])
    /\ lg_idx' = [lg_idx EXCEPT ![t] = Len(lg_acq) + 1]
    /\ lg_waiting' = SelectSeq(lg_waiting, LAMBDA u : u # t)

\* history: what became of thread t's call
Decided(t, result) ==
    /\ lg_acq' = [lg_acq EXCEPT ![lg_idx[t]].result = result]
    /\ lg_idx' = lg_idx

\* history: thread t's call returns
Returned(t) ==
    /\ lg_acq' = [lg_acq EXCEPT ![lg_idx[t]].done = TRUE]
    /\ lg_idx' = [lg_idx EXCEPT ![t] = 0]

\* Logger::instance(): the local static is constructed by the first call, and
\* the constructor (line 188) prints the start-up banner
InstanceOs ==
    IF Logger_instance THEN Logger_os_
    ELSE Logger_os_ \o <<StartUpBanner, "\n">>

\* ---- Logger::level, lines 138-141 ----
\* faulty variant of LevelLock: the guard is a temporary, destroyed at once
LevelLockNoBlock(t) ==
    /\ lg_pc[t] = "L139"
    /\ Acquired(t)
    /\ lg_pc' = [lg_pc EXCEPT ![t] = "L140"]
    /\ UNCHANGED <<outsideLogger, Logger_mutex_, Logger_os_, Logger_count_,
                   Logger_level_, Logger_instance, lg_arg, lg_ret, lg_issued>>

\* line 139: std::lock_guard<std::mutex> lock(mutex_);
LevelLock(t) ==
    /\ lg_pc[t] = "L139"
    /\ Logger_mutex_ = Free
    /\ Logger_mutex_' = t
    /\ Acquired(t)
    /\ lg_pc' = [lg_pc EXCEPT ![t] = "L140"]
    /\ UNCHANGED <<outsideLogger, Logger_os_, Logger_count_, Logger_level_,
                   Logger_instance, lg_arg, lg_ret, lg_issued>>

\* faulty variant of LevelSet: the threshold is not stored
LevelSetNoWrite(t) ==
    /\ lg_pc[t] = "L140"
    /\ Logger_os_' = InstanceOs
    /\ Logger_instance' = TRUE
    /\ Decided(t, "set")
    /\ lg_pc' = [lg_pc EXCEPT ![t] = "L141"]
    /\ UNCHANGED <<outsideLogger, Logger_mutex_, Logger_count_, Logger_level_,
                   lg_arg, lg_ret, lg_issued, lg_waiting>>

\* faulty variant of LevelSet: the method also reports the new threshold on
\* the output
LevelSetAnnounces(t) ==
    /\ lg_pc[t] = "L140"
    /\ Logger_os_' = Append(InstanceOs, to_string(lg_arg[t].level))
    /\ Logger_instance' = TRUE
    /\ Logger_level_' = lg_arg[t].level
    /\ Decided(t, "set")
    /\ lg_pc' = [lg_pc EXCEPT ![t] = "L141"]
    /\ UNCHANGED <<outsideLogger, Logger_mutex_, Logger_count_, lg_arg,
                   lg_ret, lg_issued, lg_waiting>>

\* line 140: instance().level_ = level;
LevelSet(t) ==
    /\ lg_pc[t] = "L140"
    /\ Logger_os_' = InstanceOs
    /\ Logger_instance' = TRUE
    /\ Logger_level_' = lg_arg[t].level
    /\ Decided(t, "set")
    /\ lg_pc' = [lg_pc EXCEPT ![t] = "L141"]
    /\ UNCHANGED <<outsideLogger, Logger_mutex_, Logger_count_, lg_arg,
                   lg_ret, lg_issued, lg_waiting>>

\* line 141: the lock_guard goes out of scope and the call returns
LevelUnlock(t) ==
    /\ lg_pc[t] = "L141"
    /\ Logger_mutex_' = Free
    /\ Returned(t)
    /\ lg_pc' = [lg_pc EXCEPT ![t] = lg_ret[t]]
    /\ lg_arg' = [lg_arg EXCEPT ![t] = NoArg]
    /\ UNCHANGED <<outsideLogger, Logger_os_, Logger_count_, Logger_level_,
                   Logger_instance, lg_ret, lg_issued, lg_waiting>>

\* ---- Logger::log, lines 175-181 ----
\* faulty variant of LogLock: the guard is a temporary, destroyed at once
LogLockNoBlock(t) ==
    /\ lg_pc[t] = "L176"
    /\ Acquired(t)
    /\ lg_pc' = [lg_pc EXCEPT ![t] = "L177"]
    /\ UNCHANGED <<outsideLogger, Logger_mutex_, Logger_os_, Logger_count_,
                   Logger_level_, Logger_instance, lg_arg, lg_ret, lg_issued>>

\* line 176: std::lock_guard<std::mutex> lock(mutex_);
LogLock(t) ==
    /\ lg_pc[t] = "L176"
    /\ Logger_mutex_ = Free
    /\ Logger_mutex_' = t
    /\ Acquired(t)
    /\ lg_pc' = [lg_pc EXCEPT ![t] = "L177"]
    /\ UNCHANGED <<outsideLogger, Logger_os_, Logger_count_, Logger_level_,
                   Logger_instance, lg_arg, lg_ret, lg_issued>>

\* faulty variant of Below: <= for <
BelowOrEqual(level, threshold) == level <= threshold

\* line 177: static_cast<int>(level) < static_cast<int>(instance().level_)
Below(level, threshold) == level < threshold

\* faulty variant of LogCheck: an accepted call raises the threshold to its
\* own level
LogCheckSetsLevel(t) ==
    /\ lg_pc[t] = "L177"
    /\ Logger_os_' = InstanceOs
    /\ Logger_instance' = TRUE
    /\ IF Below(lg_arg[t].level, Logger_level_)
          THEN /\ lg_pc' = [lg_pc EXCEPT ![t] = "L178"]
               /\ Decided(t, "dropped")
               /\ Logger_level_' = Logger_level_
          ELSE /\ lg_pc' = [lg_pc EXCEPT ![t] = "L179_inc"]
               /\ Decided(t, "accepted")
               /\ Logger_level_' = lg_arg[t].level
    /\ UNCHANGED <<outsideLogger, Logger_mutex_, Logger_count_, lg_arg,
                   lg_ret, lg_issued, lg_waiting>>

\* faulty variant of LogCheck: the counter is incremented before the test
LogCheckCountFirst(t) ==
    /\ lg_pc[t] = "L177"
    /\ Logger_os_' = InstanceOs
    /\ Logger_instance' = TRUE
    /\ Logger_count_' = Logger_count_ + 1
    /\ IF Below(lg_arg[t].level, Logger_level_)
          THEN /\ lg_pc' = [lg_pc EXCEPT ![t] = "L178"]
               /\ Decided(t, "dropped")
          ELSE /\ lg_pc' = [lg_pc EXCEPT ![t] = "L179_count"]
               /\ Decided(t, "accepted")
    /\ UNCHANGED <<outsideLogger, Logger_mutex_, Logger_level_, lg_arg,
                   lg_ret, lg_issued, lg_waiting>>

\* lines 177-178: instance(), and if the level is below the threshold, return
LogCheck(t) ==
    /\ lg_pc[t] = "L177"
    /\ Logger_os_' = InstanceOs
    /\ Logger_instance' = TRUE
    /\ IF Below(lg_arg[t].level, Logger_level_)
          THEN /\ lg_pc' = [lg_pc EXCEPT ![t] = "L178"]
               /\ Decided(t, "dropped")
          ELSE /\ lg_pc' = [lg_pc EXCEPT ![t] = "L179_inc"]
               /\ Decided(t, "accepted")
    /\ UNCHANGED <<outsideLogger, Logger_mutex_, Logger_count_, Logger_level_,
                   lg_arg, lg_ret, lg_issued, lg_waiting>>

\* faulty variant of LogCount: the mutex is released once the counter is
\* incremented, before the line is written
LogCountUnlocks(t) ==
    /\ lg_pc[t] = "L179_inc"
    /\ Logger_count_' = Logger_count_ + 1
    /\ Logger_mutex_' = Free
    /\ lg_pc' = [lg_pc EXCEPT ![t] = "L179_count"]
    /\ UNCHANGED <<outsideLogger, Logger_os_, Logger_level_, Logger_instance,
                   lg_arg, lg_ret, lg_issued, lg_waiting, lg_acq, lg_idx>>

\* line 179: ++instance().count_
LogCount(t) ==
    /\ lg_pc[t] = "L179_inc"
    /\ Logger_count_' = Logger_count_ + 1
    /\ lg_pc' = [lg_pc EXCEPT ![t] = "L179_count"]
    /\ UNCHANGED <<outsideLogger, Logger_mutex_, Logger_os_, Logger_level_,
                   Logger_instance, lg_arg, lg_ret, lg_issued, lg_waiting,
                   lg_acq, lg_idx>>

\* lines 179-180: the six operator<< of the statement, left to right, and
\* the end of the function after them
WritePcs == <<"L179_count", "L179_tab", "L179_level", "L179_nltab",
              "L180_message", "L180_nl", "L181">>

\* the position in WritePcs of a thread that is writing
WritePos(t) == CHOOSE i \in 1..6 : WritePcs[i] = lg_pc[t]

\* what the operator<< at position i of thread t's statement writes
Token(t, i) ==
    CASE i = 1 -> DecimalString(Logger_count_)
      [] i = 2 -> "\t"
      [] i = 3 -> to_string(lg_arg[t].level)
      [] i = 4 -> "\n\t"
      [] i = 5 -> lg_arg[t].message
      [] i = 6 -> "\n"

\* lines 179-180: one operator<< of the statement
LogWrite(t) ==
    /\ \E i \in 1..6 : WritePcs[i] = lg_pc[t]
    /\ Logger_os_' = Append(Logger_os_, Token(t, WritePos(t)))
    /\ lg_pc' = [lg_pc EXCEPT ![t] = WritePcs[WritePos(t) + 1]]
    /\ UNCHANGED <<outsideLogger, Logger_mutex_, Logger_count_, Logger_level_,
                   Logger_instance, lg_arg, lg_ret, lg_issued, lg_waiting,
                   lg_acq, lg_idx>>

\* faulty variant of LogUnlock: the mutex is locked and unlocked by hand and
\* the early return of line 178 leaves without unlocking
LogUnlockLeaks(t) ==
    /\ lg_pc[t] \in {"L178", "L181"}
    /\ Logger_mutex_' = IF lg_pc[t] = "L178" THEN Logger_mutex_ ELSE Free
    /\ Returned(t)
    /\ lg_pc' = [lg_pc EXCEPT ![t] = lg_ret[t]]
    /\ lg_arg' = [lg_arg EXCEPT ![t] = NoArg]
    /\ UNCHANGED <<outsideLogger, Logger_os_, Logger_count_, Logger_level_,
                   Logger_instance, lg_ret, lg_issued, lg_waiting>>

\* lines 178 and 181: the lock_guard goes out of scope and the call returns
LogUnlock(t) ==
    /\ lg_pc[t] \in {"L178", "L181"}
    /\ Logger_mutex_' = Free
    /\ Returned(t)
    /\ lg_pc' = [lg_pc EXCEPT ![t] = lg_ret[t]]
    /\ lg_arg' = [lg_arg EXCEPT ![t] = NoArg]
    /\ UNCHANGED <<outsideLogger, Logger_os_, Logger_count_, Logger_level_,
                   Logger_instance, lg_ret, lg_issued, lg_waiting>>

\* the steps of the two public methods
LoggerStep(t) ==
    \/ LevelLock(t)
    \/ LevelSet(t)
    \/ LevelUnlock(t)
    \/ LogLock(t)
    \/ LogCheck(t)
    \/ LogCount(t)
    \/ LogWrite(t)
    \/ LogUnlock(t)

\* ---- clients: any threads calling the public API concurrently ----
LogThreads == 1..NLogThreads

\* the text the clients log at level l: the one main logs at that level
ClientText(l) == LogText[CHOOSE i \in 1..Len(LogText) : LogLevel[i] = l]

LoggerInit ==
    /\ LoggerStatics
    /\ lg_pc = [t \in LogThreads |-> "idle"]
    /\ lg_arg = [t \in LogThreads |-> NoArg]
    /\ lg_ret = [t \in LogThreads |-> "idle"]
    /\ lg_idx = [t \in LogThreads |-> 0]

\* a client calls Logger::level(l) or Logger::log(text, l)
LoggerCall(t) ==
    /\ lg_pc[t] = "idle"
    /\ lg_issued < MaxCalls
    /\ \/ \E l \in Levels :
             Issue(t, [op |-> "level", level |-> l, message |-> ""], "idle")
       \/ \E l \in Levels :
             Issue(t, [op |-> "log", level |-> l, message |-> ClientText(l)], "idle")
    /\ UNCHANGED <<outsideLogger, Logger_mutex_, Logger_os_, Logger_count_,
                   Logger_level_, Logger_instance, lg_acq, lg_idx>>

LoggerNext ==
    \E t \in LogThreads : LoggerCall(t) \/ LoggerStep(t)

\* ---- main, lines 197-222 ----
MainThread == 0
Workers == 1..Len(LogText)

MainInit ==
    /\ LoggerStatics
    /\ lg_pc = [t \in {MainThread} \cup Workers |->
                    IF t = MainThread THEN "m199" ELSE "unborn"]
    /\ lg_arg = [t \in {MainThread} \cup Workers |-> NoArg]
    /\ lg_ret = [t \in {MainThread} \cup Workers |-> "exit"]
    /\ lg_idx = [t \in {MainThread} \cup Workers |-> 0]

\* the lines of main in order: print, set the level, start t1..t4, join them
MainPcs == <<"m199", "m201", "m203", "m205", "m207", "m211",
             "m216", "m217", "m218", "m219", "m221", "exit">>

MainPos == CHOOSE i \in 1..Len(MainPcs) : MainPcs[i] = lg_pc[MainThread]

MainAfter == MainPcs[MainPos + 1]

\* line 199: std::cout << "//// Logger Singleton ////\n";
MainPrint ==
    /\ lg_pc[MainThread] = "m199"
    /\ Logger_os_' = Append(Logger_os_, MainHeader)
    /\ lg_pc' = [lg_pc EXCEPT ![MainThread] = MainAfter]
    /\ UNCHANGED <<outsideLogger, Logger_mutex_, Logger_count_, Logger_level_,
                   Logger_instance, lg_arg, lg_ret, lg_issued, lg_waiting,
                   lg_acq, lg_idx>>

\* line 201: Logger::level(Logger::Level::info);
MainLevel ==
    /\ lg_pc[MainThread] = "m201"
    /\ Issue(MainThread, [op |-> "level", level |-> info, message |-> ""], MainAfter)
    /\ UNCHANGED <<outsideLogger, Logger_mutex_, Logger_os_, Logger_count_,
                   Logger_level_, Logger_instance, lg_acq, lg_idx>>

\* lines 203-214: std::thread t1 .. t4; the statements at places 3..6 of
\* MainPcs start workers 1..4
MainSpawn ==
    /\ lg_pc[MainThread] \in {"m203", "m205", "m207", "m211"}
    /\ lg_pc' = [lg_pc EXCEPT ![MainThread] = MainAfter, ![MainPos - 2] = "start"]
    /\ UNCHANGED <<outsideLogger, Logger_mutex_, Logger_os_, Logger_count_,
                   Logger_level_, Logger_instance, lg_arg, lg_ret, lg_issued,
                   lg_waiting, lg_acq, lg_idx>>

\* the lambda of worker t: Logger::log(text, level)
WorkerBody(t) ==
    /\ lg_pc[t] = "start"
    /\ Issue(t, [op |-> "log", level |-> LogLevel[t], message |-> LogText[t]], "exit")
    /\ UNCHANGED <<outsideLogger, Logger_mutex_, Logger_os_, Logger_count_,
                   Logger_level_, Logger_instance, lg_acq, lg_idx>>

\* lines 216-219: t1.join() .. t4.join(); the statements at places 7..10 of
\* MainPcs wait for workers 1..4 to finish
MainJoin ==
    /\ lg_pc[MainThread] \in {"m216", "m217", "m218", "m219"}
    /\ lg_pc[MainPos - 6] = "exit"
    /\ lg_pc' = [lg_pc EXCEPT ![MainThread] = MainAfter]
    /\ UNCHANGED <<outsideLogger, Logger_mutex_, Logger_os_, Logger_count_,
                   Logger_level_, Logger_instance, lg_arg, lg_ret, lg_issued,
                   lg_waiting, lg_acq, lg_idx>>

\* line 221: return EXIT_SUCCESS; then the static Logger is destroyed and its
\* destructor (line 189) prints the shut-down banner
MainReturn ==
    /\ lg_pc[MainThread] = "m221"
    /\ Logger_os_' = IF Logger_instance
                        THEN Logger_os_ \o <<ShutDownBanner, "\n">>
                        ELSE Logger_os_
    /\ lg_pc' = [lg_pc EXCEPT ![MainThread] = MainAfter]
    /\ UNCHANGED <<outsideLogger, Logger_mutex_, Logger_count_, Logger_level_,
                   Logger_instance, lg_arg, lg_ret, lg_issued, lg_waiting,
                   lg_acq, lg_idx>>

MainNext ==
    \/ MainPrint
    \/ MainLevel
    \/ MainSpawn
    \/ MainJoin
    \/ MainReturn
    \/ \E t \in {MainThread} \cup Workers : LoggerStep(t)
    \/ \E t \in Workers : WorkerBody(t)

(***************************************************************************)
(* Specifications: one per program.  The variables of the other programs   *)
(* stay as their static initialisation leaves them, with no thread.        *)
(***************************************************************************)
SingletonIdle ==
    /\ pinstance = NULL
    /\ Singleton_mutex_ = Free
    /\ heap = 0
    /\ gi_pc = <<>>
    /\ gi_call = <<>>
    /\ s1 = <<>>
    /\ s2 = <<>>
    /\ gi_out = <<>>
    /\ gi_first = <<>>
    /\ gi_locked = <<>>
    /\ gi_recheck = <<>>
    /\ gi_after = <<>>
    /\ gi_terminated = FALSE

ConceptualIdle ==
    /\ cs_singleton = "none"
    /\ cs_process = "running"
    /\ cs_pc = <<>>
    /\ cs_s1 = <<>>
    /\ cs_s2 = <<>>
    /\ cs_out = <<>>

NonThreadSafeIdle ==
    /\ nts_singleton_ = NULL
    /\ nts_heap = <<>>
    /\ nts_pc = <<>>
    /\ nts_known = <<>>
    /\ nts_local = <<>>
    /\ nts_out = <<>>

MementoIdle ==
    /\ Originator_state_ = <<>>
    /\ Caretaker_mementos_ = <<>>
    /\ mm_heap = <<>>
    /\ mm_out = <<>>
    /\ mm_trace = <<>>

StateIdle ==
    /\ Context_state_ = NULL
    /\ st_heap = <<>>
    /\ st_context = "none"
    /\ st_out = <<>>
    /\ st_trace = <<>>

ObserverIdle ==
    /\ list_observer_ = <<>>
    /\ Subject_message_ = ""
    /\ static_number_ = 0
    /\ ob_heap = <<>>
    /\ ob_out = <<>>
    /\ ob_trace = <<>>
    /\ ob_updates = <<>>

ChainIdle ==
    /\ ch_heap = <<>>
    /\ ch_out = <<>>
    /\ ch_call = NoCall
    /\ ch_ops = 0

BuilderIdle ==
    /\ bd_product = NULL
    /\ bd_heap = <<>>
    /\ bd_builder = "none"
    /\ bd_out = <<>>
    /\ bd_trace = <<>>
    /\ bd_got = <<>>
    /\ bd_ops = 0

CompositeIdle ==
    /\ cp_heap = <<>>
    /\ cp_out = <<>>
    /\ cp_call = NoOperation
    /\ cp_ops = 0

CommandIdle ==
    /\ Invoker_on_start_ = NULL
    /\ Invoker_on_finish_ = NULL
    /\ cm_heap = <<>>
    /\ cm_process = "none"
    /\ cm_out = <<>>
    /\ cm_set = [start |-> FALSE, finish |-> FALSE]
    /\ cm_run = NoRun
    /\ cm_ops = 0

LoggerIdle ==
    /\ LoggerStatics
    /\ lg_pc = <<>>
    /\ lg_arg = <<>>
    /\ lg_ret = <<>>
    /\ lg_idx = <<>>

SingletonProgram ==
    SingletonInit /\ LoggerIdle /\ ConceptualIdle /\ NonThreadSafeIdle
    /\ MementoIdle /\ StateIdle /\ ObserverIdle /\ ChainIdle /\ BuilderIdle
    /\ CompositeIdle /\ CommandIdle

LoggerClients ==
    LoggerInit /\ SingletonIdle /\ ConceptualIdle /\ NonThreadSafeIdle
    /\ MementoIdle /\ StateIdle /\ ObserverIdle /\ ChainIdle /\ BuilderIdle
    /\ CompositeIdle /\ CommandIdle

LoggerMain ==
    MainInit /\ SingletonIdle /\ ConceptualIdle /\ NonThreadSafeIdle
    /\ MementoIdle /\ StateIdle /\ ObserverIdle /\ ChainIdle /\ BuilderIdle
    /\ CompositeIdle /\ CommandIdle

ConceptualProgram ==
    ConceptualInit /\ SingletonIdle /\ LoggerIdle /\ NonThreadSafeIdle
    /\ MementoIdle /\ StateIdle /\ ObserverIdle /\ ChainIdle /\ BuilderIdle
    /\ CompositeIdle /\ CommandIdle

NonThreadSafeProgram ==
    NonThreadSafeInit /\ SingletonIdle /\ LoggerIdle /\ ConceptualIdle
    /\ MementoIdle /\ StateIdle /\ ObserverIdle /\ ChainIdle /\ BuilderIdle
    /\ CompositeIdle /\ CommandIdle

MementoProgram ==
    MementoInit /\ SingletonIdle /\ LoggerIdle /\ ConceptualIdle
    /\ NonThreadSafeIdle /\ StateIdle /\ ObserverIdle /\ ChainIdle
    /\ BuilderIdle /\ CompositeIdle /\ CommandIdle

StateProgram ==
    StateInit /\ SingletonIdle /\ LoggerIdle /\ ConceptualIdle
    /\ NonThreadSafeIdle /\ MementoIdle /\ ObserverIdle /\ ChainIdle
    /\ BuilderIdle /\ CompositeIdle /\ CommandIdle

ObserverProgram ==
    ObserverInit /\ SingletonIdle /\ LoggerIdle /\ ConceptualIdle
    /\ NonThreadSafeIdle /\ MementoIdle /\ StateIdle /\ ChainIdle
    /\ BuilderIdle /\ CompositeIdle /\ CommandIdle

ChainProgram ==
    ChainInit /\ SingletonIdle /\ LoggerIdle /\ ConceptualIdle
    /\ NonThreadSafeIdle /\ MementoIdle /\ StateIdle /\ ObserverIdle
    /\ BuilderIdle /\ CompositeIdle /\ CommandIdle

BuilderProgram ==
    BuilderInit /\ SingletonIdle /\ LoggerIdle /\ ConceptualIdle
    /\ NonThreadSafeIdle /\ MementoIdle /\ StateIdle /\ ObserverIdle
    /\ ChainIdle /\ CompositeIdle /\ CommandIdle

CompositeProgram ==
    CompositeInit /\ SingletonIdle /\ LoggerIdle /\ ConceptualIdle
    /\ NonThreadSafeIdle /\ MementoIdle /\ StateIdle /\ ObserverIdle
    /\ ChainIdle /\ BuilderIdle /\ CommandIdle

CommandProgram ==
    CommandInit /\ SingletonIdle /\ LoggerIdle /\ ConceptualIdle
    /\ NonThreadSafeIdle /\ MementoIdle /\ StateIdle /\ ObserverIdle
    /\ ChainIdle /\ BuilderIdle /\ CompositeIdle

SpecSingleton == SingletonProgram /\ [][SingletonNext]_vars

SpecLogger == LoggerClients /\ [][LoggerNext]_vars

SpecLoggerMain == LoggerMain /\ [][MainNext]_vars

SpecConceptual == ConceptualProgram /\ [][ConceptualNext]_vars

SpecNonThreadSafe == NonThreadSafeProgram /\ [][NonThreadSafeNext]_vars

SpecMemento == MementoProgram /\ [][MementoNext]_vars

SpecState == StateProgram /\ [][StateNext]_vars

SpecObserver == ObserverProgram /\ [][ObserverNext]_vars
SpecChain == ChainProgram /\ [][ChainNext]_vars
SpecBuilder == BuilderProgram /\ [][BuilderNext]_vars
SpecComposite == CompositeProgram /\ [][CompositeNext]_vars
SpecCommand == CommandProgram /\ [][CommandNext]_vars

\* fair scheduling of the Logger's clients: a thread inside Logger::level or
\* Logger::log that can take its next step again and again does take it (a
\* thread at a lock_guard can take its step whenever the mutex is free).
\* Nothing makes a client issue a call.
LoggerFairness == \A t \in LogThreads : SF_vars(LoggerStep(t))

SpecLoggerFair == LoggerClients /\ [][LoggerNext]_vars /\ LoggerFairness

(***************************************************************************)
(* Claims about the thread-safe Singleton (SpecSingleton).                 *)
(***************************************************************************)
\* the GetInstance calls that have returned, as <<thread, call>> pairs
ReturnedCalls ==
    {<<t, 1>> : t \in {u \in Clients : gi_pc[u] \in {"c129", "c130", "done"}
                                        \/ gi_call[u] = 2}}
    \cup {<<t, 2>> : t \in {u \in Clients : gi_pc[u] \in {"c130", "done"}}}

\* the pointer a returned call gave back
ReturnedPointer(tc) == IF tc[2] = 1 THEN s1[tc[1]] ELSE s2[tc[1]]

ReturnedPointers == {ReturnedPointer(tc) : tc \in ReturnedCalls}

\* C1: for any number of concurrent GetInstance callers the constructor runs
\* exactly once (never twice, and once as soon as a call has returned) and
\* every call returns the same non-null pointer; no client prints "failed".
C1_ExactlyOneInstance ==
    /\ heap <= 1
    /\ ReturnedCalls # {} => heap = 1
    /\ NULL \notin ReturnedPointers
    /\ Cardinality(ReturnedPointers) <= 1
    /\ \A t \in Clients : gi_out[t] # "failed"

\* every client started before any instance existed (each read null at line
\* 110 in its first call) and all of them have finished both calls
C1_Witness ==
    /\ \A t \in Clients : gi_pc[t] = "done" /\ gi_first[t][1] = "null"
    /\ heap = 1

\* C9: pinstance is null until a GetInstance call constructs, no call returns
\* while it is null, and once non-null it is never reset nor replaced.
C9_OneWayInitialized ==
    /\ [](pinstance = NULL => (heap = 0 /\ ReturnedCalls = {}))
    /\ [][pinstance # NULL => pinstance' = pinstance]_vars

\* the instance exists and later calls, all of which found it, have completed
C9_Witness ==
    /\ pinstance # NULL
    /\ \A t \in Clients : gi_pc[t] = "done" /\ gi_first[t][2] = "nonnull"

\* C10: a call that reads the marker non-null at line 110 never acquires the
\* mutex; the mutex is acquired only by calls that read it null; such a call
\* holds the mutex when it re-checks (line 113) and constructs (line 115)
\* only after that re-check read null.
C10_DoubleChecked ==
    \A t \in Clients :
        /\ \A c \in 1..2 :
              /\ gi_first[t][c] = "nonnull" => ~gi_locked[t][c]
              /\ gi_locked[t][c] => gi_first[t][c] = "null"
              /\ gi_recheck[t][c] # "none" => gi_locked[t][c]
        /\ gi_pc[t] \in {"g113", "g115", "g117"} => Singleton_mutex_ = t
        /\ gi_pc[t] \in {"g115", "g117"} => gi_recheck[t][gi_call[t]] # "none"
        /\ gi_pc[t] = "g115" => gi_recheck[t][gi_call[t]] = "null"
        /\ Singleton_mutex_ = t =>
              gi_pc[t] \in {"g113", "g115", "g117", "thrown"}

\* one call took the fast path, another took the slow path and found, under
\* the mutex, that the instance had been constructed meanwhile
C10_Witness ==
    /\ \E t \in Clients : gi_pc[t] = "done" /\ gi_first[t][2] = "nonnull"
                             /\ ~gi_locked[t][2]
    /\ \E t \in Clients : gi_first[t][1] = "null" /\ gi_locked[t][1]
                             /\ gi_recheck[t][1] = "nonnull"

\* the returned calls that were issued after a construction had failed
LaterCalls == {tc \in ReturnedCalls : gi_after[tc[1]][tc[2]]}

\* C11 as stated: a construction failure is fatal in that no GetInstance call
\* issued after it constructs and returns an instance.
C11_NoLaterInstance == \A tc \in LaterCalls : ReturnedPointer(tc) = NULL

\* C11, amended: a failed construction is reported by an exception and never
\* by a null result; the failing call stores nothing in pinstance, constructs
\* nothing and returns nothing, its thread runs no further statement of
\* ClientCode, and once std::terminate has ended the process nothing changes
\* any more.  (Before that, another thread may still construct and return.)
C11_FailurePropagates ==
    /\ [](/\ NULL \notin ReturnedPointers
          /\ \A t \in Thrown :
                /\ gi_call[t] = 1 => s1[t] = NULL
                /\ s2[t] = NULL
                /\ gi_out[t] = "none")
    /\ [][/\ Thrown \subseteq Thrown'
          /\ Thrown' # Thrown => (pinstance' = pinstance /\ heap' = heap)
          /\ gi_terminated => UNCHANGED vars]_vars

\* a construction failed and the process has been terminated, yet a call
\* issued after the failure constructed the instance and returned it
C11_Witness ==
    /\ gi_terminated
    /\ \E t \in Thrown : gi_recheck[t][gi_call[t]] = "null"
    /\ \E tc \in LaterCalls :
          /\ ReturnedPointer(tc) = pinstance
          /\ pinstance # NULL
          /\ gi_recheck[tc[1]][tc[2]] = "null"

(***************************************************************************)
(* Claims about the Logger (SpecLogger, SpecLoggerMain).                   *)
(***************************************************************************)
\* the output split into the lines of Logger::log: what main, the constructor
\* and the destructor print is skipped, and every six strings after that are
\* one line (the last one may be still being written)
RECURSIVE LinesOf(_)
LinesOf(toks) ==
    IF toks = <<>> THEN <<>>
    ELSE IF Head(toks) = MainHeader THEN LinesOf(Tail(toks))
    ELSE IF Head(toks) \in {StartUpBanner, ShutDownBanner}
            THEN LinesOf(SubSeq(toks, 3, Len(toks)))
    ELSE <<SubSeq(toks, 1, IF Len(toks) < 6 THEN Len(toks) ELSE 6)>>
         \o LinesOf(SubSeq(toks, 7, Len(toks)))

LogLines == LinesOf(Logger_os_)

\* the number a line starts with, -1 if it does not start with a number
CounterOf(line) ==
    IF \E n \in 0..Len(Logger_os_) : DecimalString(n) = line[1]
       THEN CHOOSE n \in 0..Len(Logger_os_) : DecimalString(n) = line[1]
       ELSE -1

\* the line of an accepted call with counter k, level l and the given text
LineFor(k, l, text) == <<DecimalString(k), "\t", to_string(l), "\n\t", text, "\n">>

IsPrefix(a, b) == Len(a) <= Len(b) /\ a = SubSeq(b, 1, Len(a))

\* the log calls, in lock order, that passed the threshold test
AcceptedCalls ==
    SelectSeq(lg_acq, LAMBDA e : e.op = "log" /\ e.result = "accepted")

AcceptedDone == SelectSeq(AcceptedCalls, LAMBDA e : e.done)

\* C2: under every interleaving the k-th line on the output carries counter
\* k, so the counters of the accepted calls are distinct and are exactly
\* 1..n with n the number of accepted calls: n lines once every accepted call
\* has returned, and never more lines than accepted calls.
C2_CountersDense ==
    LET lines == LogLines
        accepted == Len(AcceptedCalls)
        returned == Len(AcceptedDone)
    IN  /\ \A k \in 1..Len(lines) : CounterOf(lines[k]) = k
        /\ returned <= Len(SelectSeq(lines, LAMBDA r : Len(r) = 6))
        /\ Len(lines) <= Logger_count_
        /\ Logger_count_ <= accepted
        /\ returned = accepted => Len(lines) = accepted

\* the clients have issued MaxCalls log calls concurrently, all were accepted
\* and have returned, and at least one of them overtook an earlier call
C2_Witness ==
    /\ Len(AcceptedDone) = MaxCalls
    /\ Len(LogLines) = MaxCalls
    /\ \E i \in 1..Len(lg_acq) : lg_acq[i].overtook

\* C3: every step of a Logger::log call whose level is below the threshold
\* leaves the output and the counter as they are, and the call returns the
\* way an accepted one does: to its caller, with the mutex released.
C3_DroppedSilently ==
    [][\A t \in DOMAIN lg_pc :
          (/\ lg_pc'[t] # lg_pc[t]
           /\ lg_pc[t] \in {"L176", "L177", "L178"}
           /\ lg_arg[t].level < Logger_level_)
          => /\ Logger_os_' = Logger_os_
             /\ Logger_count_' = Logger_count_
             /\ lg_pc[t] = "L177" => lg_pc'[t] = "L178"
             /\ lg_pc[t] = "L178" => (lg_pc'[t] = lg_ret[t] /\ Logger_mutex_' = Free)]_vars

\* a call was dropped and has returned after another one had been accepted
C3_Witness ==
    /\ \E i \in 1..Len(lg_acq) : lg_acq[i].result = "dropped" /\ lg_acq[i].done
    /\ Logger_count_ = 1
    /\ Len(LogLines) = 1
    /\ Logger_mutex_ = Free

\* the lines of a thread that is past its lock_guard
ProtectedPcs ==
    {"L140", "L141", "L177", "L178", "L179_inc", "L179_count", "L179_tab",
     "L179_level", "L179_nltab", "L180_message", "L180_nl", "L181"}

\* the lines of a thread that has incremented the counter and is writing
EmittingPcs ==
    {"L179_count", "L179_tab", "L179_level", "L179_nltab", "L180_message",
     "L180_nl"}

\* C5: at most one thread is past the lock_guard of Logger::log or
\* Logger::level, and it owns the mutex; from the increment of the counter to
\* the last string of the line no step changes the counter or the threshold,
\* and only the emitting thread writes to the output.
C5_MutualExclusion ==
    /\ [](\A t \in DOMAIN lg_pc :
             lg_pc[t] \in ProtectedPcs
             => /\ Logger_mutex_ = t
                /\ \A u \in DOMAIN lg_pc \ {t} : lg_pc[u] \notin ProtectedPcs)
    /\ [][\A t \in DOMAIN lg_pc :
             lg_pc[t] \in EmittingPcs
             => /\ Logger_count_' = Logger_count_
                /\ Logger_level_' = Logger_level_
                /\ Logger_os_' # Logger_os_ => lg_pc'[t] # lg_pc[t]]_vars

\* a thread is in the middle of its line while a Logger::level call and, if
\* there is a third thread, a Logger::log call wait for the mutex
C5_Witness ==
    \E t \in DOMAIN lg_pc :
        /\ lg_pc[t] = "L179_level"
        /\ \E u \in DOMAIN lg_pc : lg_pc[u] = "L139"
        /\ Len(LogLines) = 2

\* C6: the lines on the output are those of the accepted calls in the order
\* in which the calls acquired the mutex, the k-th with counter k; only the
\* last line can be incomplete, while its call has not returned.
C6_LockOrder ==
    LET lines == LogLines
        accepted == AcceptedCalls
    IN  /\ Len(lines) <= Len(accepted)
        /\ \A k \in 1..Len(lines) :
              /\ IsPrefix(lines[k], LineFor(k, accepted[k].level, accepted[k].message))
              /\ (accepted[k].done \/ k < Len(lines)) => Len(lines[k]) = 6

\* two accepted calls with different texts, and nothing else, were issued;
\* the line of the one issued second comes first
C6_Witness ==
    /\ lg_issued = 2
    /\ Len(lg_acq) = 2
    /\ lg_acq[1].overtook
    /\ Len(AcceptedDone) = 2
    /\ lg_acq[1].message # lg_acq[2].message
    /\ Len(LogLines) = 2
    /\ LogLines[1][5] = lg_acq[1].message

\* the threshold in force for the i-th call in lock order: the argument of
\* the last Logger::level call before it, debug (line 111) if there is none
RECURSIVE ThresholdFor(_)
ThresholdFor(i) ==
    IF i = 1 THEN debug
    ELSE IF lg_acq[i - 1].op = "level" THEN lg_acq[i - 1].level
    ELSE ThresholdFor(i - 1)

\* C7: a log call is accepted exactly if its level is not below the argument
\* of the last Logger::level call that acquired the mutex before it (debug if
\* there is none); Logger::level calls that acquire the mutex later play no
\* part; with the mutex free the threshold is that of the last level call.
C7_LastWriterWins ==
    /\ \A i \in 1..Len(lg_acq) :
          (lg_acq[i].op = "log" /\ lg_acq[i].result # "pending")
          => (lg_acq[i].result = "accepted" <=> lg_acq[i].level >= ThresholdFor(i))
    /\ Logger_mutex_ = Free => Logger_level_ = ThresholdFor(Len(lg_acq) + 1)

\* two Logger::level calls raced, the one that got the mutex second had been
\* issued first; the log call after them obeys the second in lock order
C7_Witness ==
    /\ Len(lg_acq) = 3
    /\ lg_acq[1].op = "level" /\ lg_acq[1].level = error /\ lg_acq[1].overtook
    /\ lg_acq[2].op = "level" /\ lg_acq[2].level = info
    /\ lg_acq[3].op = "log" /\ lg_acq[3].level = warning
    /\ lg_acq[3].result = "accepted" /\ lg_acq[3].done

\* the lines a call of thread t has written since it acquired the mutex
LinesOfCall(t) ==
    LinesOf(SubSeq(Logger_os_, lg_acq[lg_idx[t]].os0 + 1, Len(Logger_os_)))

\* C8: a Logger::log(text, m) call about to return has written one line,
\* that of level m with its text, if m >= t for the threshold t in force,
\* and nothing if m < t, for every m and t of the four levels.
C8_EmitsIffAtOrAbove ==
    \A t \in DOMAIN lg_pc :
        lg_pc[t] \in {"L178", "L181"}
        => LET written == LinesOfCall(t)
           IN  /\ lg_arg[t].level >= Logger_level_
                  => /\ Len(written) = 1
                     /\ Len(written[1]) = 6
                     /\ written[1][3] = to_string(lg_arg[t].level)
                     /\ written[1][5] = lg_arg[t].message
               /\ lg_arg[t].level < Logger_level_ => written = <<>>

\* the boundary: a call at exactly the threshold has written its line, after
\* a call one level lower was dropped
C8_Witness ==
    /\ \E t \in DOMAIN lg_pc :
          /\ lg_pc[t] = "L181"
          /\ lg_arg[t].level = warning
          /\ Logger_level_ = warning
    /\ \E i \in 1..Len(lg_acq) :
          lg_acq[i].level = info /\ lg_acq[i].result = "dropped"

\* the third strings of the lines: the level names
LevelNames == {LogLines[k][3] : k \in {j \in 1..Len(LogLines) : Len(LogLines[j]) >= 3}}

\* C4: in main (threshold info, then four threads logging at debug, info,
\* warning and error) no line of level debug is ever written, and when main
\* returns the output holds exactly three lines, of levels info, warning and
\* error, with counters 1, 2, 3.
C4_MainThreeLines ==
    /\ "[DEBUG]" \notin LevelNames
    /\ Len(LogLines) <= 3
    /\ lg_pc[MainThread] \in {"m221", "exit"}
       => /\ Len(LogLines) = 3
          /\ \A k \in 1..3 : Len(LogLines[k]) = 6 /\ LogLines[k][1] = Digit[k + 1]
          /\ LevelNames = {"[INFO]", "[WARNING]", "[ERROR]"}
          /\ Logger_count_ = 3

\* main has returned; the error line came first and the info line last
C4_Witness ==
    /\ lg_pc[MainThread] = "exit"
    /\ LogLines[1][3] = "[ERROR]"
    /\ LogLines[3][3] = "[INFO]"

\* the calls that have been issued and have not passed their lock_guard
WaitingPcs == {"L139", "L176"}

RepeatedLevel ==
    {i \in 2..Len(lg_acq) :
        /\ lg_acq[i].op = "level"
        /\ lg_acq[i - 1].op = "level"
        /\ lg_acq[i - 1].level = lg_acq[i].level}

\* C13: the second of two Logger::level calls in a row with the same value
\* changes nothing: from its lock_guard to its return the threshold, the
\* counter, the output and the instance stay as the first call left them
\* (the threshold being the value passed), so whatever is called next meets
\* the same logger as after one call.
C13_LevelIdempotent ==
    /\ [](\A t \in LogThreads :
             lg_idx[t] \in RepeatedLevel
             => /\ Logger_level_ = lg_acq[lg_idx[t]].level
                /\ Logger_instance
                /\ Len(Logger_os_) = lg_acq[lg_idx[t]].os0)
    /\ [][(\E t \in LogThreads : lg_idx[t] \in RepeatedLevel)
          => UNCHANGED <<Logger_level_, Logger_count_, Logger_os_,
                         Logger_instance>>]_vars

\* Logger::level(warning) was called twice in a row, both calls have
\* returned, and a Logger::log call has been made after them
C13_Witness ==
    \E i \in RepeatedLevel :
        /\ lg_acq[i].level = warning
        /\ lg_acq[i].done
        /\ i < Len(lg_acq)
        /\ lg_acq[i + 1].op = "log"
        /\ lg_acq[i + 1].done

\* the name a record shows for a level
RecordLevelName(l) ==
    CASE l = debug -> "DEBUG"
      [] l = info -> "INFO"
      [] l = warning -> "WARNING"
      [] l = error -> "ERROR"

\* the text of a record: counter, tab, bracketed level name, newline, tab,
\* message, newline
RecordText(k, l, message) ==
    DecimalString(k) \o "\t" \o "[" \o RecordLevelName(l) \o "]" \o "\n" \o "\t"
    \o message \o "\n"

\* C15: an accepted Logger::log call about to return has written, since it
\* acquired the mutex, exactly one record, whose text is the counter, a tab,
\* the name of the call's level in brackets, a newline, a tab, the message
\* and a newline.
C15_RecordFormat ==
    \A t \in DOMAIN lg_pc :
        lg_pc[t] = "L181"
        => LET written == LinesOfCall(t)
           IN  /\ Len(written) = 1
               /\ Concat(written[1])
                  = RecordText(Logger_count_, lg_arg[t].level, lg_arg[t].message)

\* calls of three different levels have been accepted; the one of level
\* warning, the third record, is about to return
C15_Witness ==
    /\ Logger_count_ = 3
    /\ Cardinality({lg_acq[i].level : i \in 1..Len(lg_acq)}) = 3
    /\ \E t \in DOMAIN lg_pc : lg_pc[t] = "L181" /\ lg_arg[t].level = warning

(***************************************************************************)
(* Claims about the lifetime of the instance.                              *)
(***************************************************************************)
\* C14, for the local-static Singleton: once created the instance is alive
\* for as long as the process runs; it is destroyed at exit only.
C14_AliveUntilExit == cs_singleton = "destroyed" => cs_process = "exited"

(***************************************************************************)
(* Claims about the non-thread-safe Singleton (SpecNonThreadSafe).         *)
(***************************************************************************)
\* the values printed so far: the strings of the output after the header
\* that are not the newline
NtsPrinted ==
    {nts_out[i] : i \in {j \in Len(NtsHeader) + 1..Len(nts_out) : nts_out[j] # "\n"}}

\* C16: whatever the interleaving of ThreadFoo and ThreadBar, one Singleton
\* object at most is created, both calls return that object, and the values
\* printed are the same.
C16_OneObjectSameValue ==
    /\ Len(nts_heap) <= 1
    /\ \A t \in NtsThreads : nts_local[t] \in {NULL, 1}
    /\ Cardinality(NtsPrinted) <= 1

(***************************************************************************)
(* Claims about the Memento (SpecMemento).                                 *)
(***************************************************************************)
\* how many of the client's calls so far were op
CallsOf(op) == Len(SelectSeq(mm_trace, LAMBDA x : x = op))

\* the step is a call of op
IsCall(op) ==
    /\ Len(mm_trace') = Len(mm_trace) + 1
    /\ mm_trace'[Len(mm_trace')] = op

\* the Backups not yet undone after the calls of a trace, oldest first, each
\* named by its place among the Backups: a Backup adds the next number, an
\* Undo removes the last one
RECURSIVE NotUndone(_)
NotUndone(trace) ==
    IF trace = <<>> THEN <<>>
    ELSE LET before == NotUndone(SubSeq(trace, 1, Len(trace) - 1))
             op == trace[Len(trace)]
             backups == Len(SelectSeq(trace, LAMBDA x : x = "Backup"))
         IN  CASE op = "Backup" -> Append(before, backups)
               [] op = "Undo" -> SubSeq(before, 1, Len(before) - 1)
               [] OTHER -> before

\* no Backup was made after an Undo
UndosComeLast ==
    \A i, j \in 1..Len(mm_trace) :
        (mm_trace[i] = "Undo" /\ mm_trace[j] = "Backup") => j < i

\* an Undo on a non-empty history restores the state held by the last
\* memento of the history and removes that memento
UndoRestoresLast ==
    IsCall("Undo")
    => /\ Caretaker_mementos_ # <<>>
       /\ Originator_state_'
          = mm_heap[Caretaker_mementos_[Len(Caretaker_mementos_)]].state
       /\ Caretaker_mementos_'
          = SubSeq(Caretaker_mementos_, 1, Len(Caretaker_mementos_) - 1)

\* a Backup captures the current state in a new memento, put last
BackupCaptures ==
    IsCall("Backup")
    => /\ Len(mm_heap') = Len(mm_heap) + 1
       /\ mm_heap'[Len(mm_heap')].state = Originator_state_
       /\ Caretaker_mementos_' = Append(Caretaker_mementos_, Len(mm_heap'))

TableNext(type, request) ==
    CASE type = "ConcreteStateA" /\ request = "Request1" -> "ConcreteStateB"
      [] type = "ConcreteStateB" /\ request = "Request2" -> "ConcreteStateA"
      [] OTHER -> type

\* the state the table gives after a sequence of requests made from state A
RECURSIVE TableAfter(_)
TableAfter(trace) ==
    IF trace = <<>> THEN "ConcreteStateA"
    ELSE TableNext(TableAfter(SubSeq(trace, 1, Len(trace) - 1)), trace[Len(trace)])

\* C18: every request moves the context as the table says (Request1 in A to
\* B, Request2 in B to A, the other two leave the state object as it is), so
\* the current state is the one the table gives for the requests made; after
\* Request1, Request2 from A it is A.  The current state is a live object
\* that knows its context, and the only live one.
C18_TransitionTable ==
    /\ [][Len(st_trace') = Len(st_trace) + 1
          => /\ st_heap'[Context_state_'].type
                = TableNext(CurrentType, st_trace'[Len(st_trace')])
             /\ st_heap'[Context_state_'].type = CurrentType
                => (Context_state_' = Context_state_ /\ st_heap' = st_heap)]_vars
    /\ [](/\ CurrentType = TableAfter(st_trace)
          /\ st_trace = <<"Request1", "Request2">> => CurrentType = "ConcreteStateA"
          /\ st_context = "alive"
             => /\ st_heap[Context_state_].context_ = ADDR_context
                /\ \A a \in 1..Len(st_heap) :
                      st_heap[a].deleted <=> a # Context_state_)

\* the requests of ClientCode have been made, Request1 then Request2: the
\* current state is the third State object created, a ConcreteStateA
C18_Witness ==
    /\ st_trace = <<"Request1", "Request2">>
    /\ Context_state_ = 3
    /\ CurrentType = "ConcreteStateA"
    /\ st_context = "alive"

(***************************************************************************)
(* Claims about the Observer pattern (SpecObserver).                       *)
(***************************************************************************)
\* the observers in the list after the calls of a trace, as the claim has
\* it: an Attach adds the observer at the end, a Detach takes it out
RECURSIVE AttachedAfter(_)
AttachedAfter(trace) ==
    IF trace = <<>> THEN <<>>
    ELSE LET before == AttachedAfter(SubSeq(trace, 1, Len(trace) - 1))
             call == trace[Len(trace)]
         IN  CASE call.op = "Attach" -> Append(before, call.arg)
               [] call.op = "Detach" -> SelectSeq(before, LAMBDA o : o # call.arg)
               [] OTHER -> before

\* the places in the trace of the notifications, in order
NotifyPlaces ==
    LET places == {p \in 1..Len(ob_trace) : ob_trace[p].op = "Notify"}
    IN  [k \in 1..Cardinality(places) |->
            CHOOSE p \in places : Cardinality({q \in places : q <= p}) = k]

\* the last Attach or Detach call for observer o before place p is a Detach
DetachedAt(o, p) ==
    \E d \in 1..(p - 1) :
        /\ ob_trace[d] = [op |-> "Detach", arg |-> o]
        /\ \A a \in (d + 1)..(p - 1) : ob_trace[a] # [op |-> "Attach", arg |-> o]

\* C19: the k-th notification makes exactly the Update calls, with the
\* message being notified, for the observers attached and not detached
\* before it, one call per Attach, in the order of the Attach calls; an
\* observer whose last call before the notification was a Detach gets no
\* Update, and an observer's copy of the message is that of the last
\* notification made while it was in the list.
C19_NotifiesAttached ==
    LET places == NotifyPlaces
    IN  /\ Len(ob_updates) = Len(places)
        /\ list_observer_ = AttachedAfter(ob_trace)
        /\ \A k \in 1..Len(places) :
              LET p == places[k]
                  attached == AttachedAfter(SubSeq(ob_trace, 1, p - 1))
              IN  /\ ob_updates[k]
                     = [i \in 1..Len(attached) |->
                           [observer |-> attached[i], message |-> ob_trace[p].arg]]
                  /\ \A o \in 1..Len(ob_heap) :
                        DetachedAt(o, p)
                        => \A i \in 1..Len(ob_updates[k]) :
                              ob_updates[k][i].observer # o
        /\ \A o \in 1..Len(ob_heap) :
              LET got == {k \in 1..Len(ob_updates) :
                            \E i \in 1..Len(ob_updates[k]) :
                                ob_updates[k][i].observer = o}
              IN  ob_heap[o].message_from_subject_
                  = IF got = {} THEN ""
                    ELSE ob_trace[places[CHOOSE k \in got :
                                            \A j \in got : j <= k]].arg

\* two observers were constructed, the first removed itself, a message went
\* to the second alone, the first was attached again and a second message
\* went to the second and then to the first
C19_Witness ==
    /\ Len(ob_trace) = 6
    /\ Len(ob_updates) = 2
    /\ ob_updates[1] = <<[observer |-> 2, message |-> "Hello World! :D"]>>
    /\ ob_updates[2] = <<[observer |-> 2, message |-> "The weather is hot today! :p"],
                         [observer |-> 1, message |-> "The weather is hot today! :p"]>>
    /\ ob_trace[3] = [op |-> "Detach", arg |-> 1]
    /\ ob_trace[5] = [op |-> "Attach", arg |-> 1]

(***************************************************************************)
(* Claims about the Chain of Responsibility (SpecChain).                   *)
(***************************************************************************)
\* the handlers linked from handler h on, h first: each one's next_handler_
\* follows it.  The links form a chain when they end at a handler with no
\* next one; steps bounds the walk by the number of handlers.
RECURSIVE LinkedFrom(_, _, _)
LinkedFrom(handlers, h, steps) ==
    IF h = NULL \/ steps = 0 THEN <<>>
    ELSE <<h>> \o LinkedFrom(handlers, handlers[h].next_handler_, steps - 1)

\* the links from h on end: no handler comes twice
IsChainFrom(handlers, h) ==
    LET linked == LinkedFrom(handlers, h, Len(handlers) + 1)
    IN  Len(linked) <= Len(handlers)

\* handler g comes before handler h: h is linked from g, behind it
Precedes(handlers, g, h) ==
    LET linked == LinkedFrom(handlers, g, Len(handlers) + 1)
    IN  \E i \in 2..Len(linked) : linked[i] = h

\* C20: a call of Handle(request) at a handler of a chain returns the
\* response of the first handler, from that handler on, that recognises the
\* request, and the empty string when none from there on does; only the
\* handlers from the entry up to the one that answers run, so no handler
\* that comes before the entry is consulted.
C20_FirstRecogniserAnswers ==
    [][(Len(ch_out') > Len(ch_out)
        /\ IsChainFrom(ch_heap, ch_call'.entry))
       => LET entry == ch_call'.entry
              request == ch_call'.request
              chain == LinkedFrom(ch_heap, entry, Len(ch_heap))
              takers == {i \in 1..Len(chain) :
                           Recognises(ch_heap[chain[i]].type, request)}
              first == CHOOSE i \in takers : \A j \in takers : i <= j
          IN  /\ ch_call'.returned
              /\ ch_call'.result
                 = IF takers = {} THEN ""
                   ELSE Response(ch_heap[chain[first]].type, request)
              /\ ch_call'.consulted
                 = IF takers = {} THEN chain ELSE SubSeq(chain, 1, first)
              /\ \A g \in 1..Len(ch_heap) :
                    (Precedes(ch_heap, g, entry)
                     => \A i \in 1..Len(ch_call'.consulted) :
                           ch_call'.consulted[i] # g)
              /\ ch_out' = ch_out \o <<"Client: Who wants a ", request, "?\n">>
                           \o (IF takers = {}
                               THEN <<"  ", request, " was left untouched.\n">>
                               ELSE <<"  ", Response(ch_heap[chain[first]].type,
                                                      request)>>)]_vars

\* the chain of main, Monkey > Squirrel > Dog, was asked at the Squirrel for
\* a MeatBall: the Squirrel passed it on and the Dog answered
C20_Witness ==
    /\ ch_heap = <<[type |-> "Monkey", next_handler_ |-> 2],
                   [type |-> "Squirrel", next_handler_ |-> 3],
                   [type |-> "Dog", next_handler_ |-> NULL]>>
    /\ ch_call = [entry |-> 2, request |-> "MeatBall", returned |-> TRUE,
                  result |-> "Dog: I'll eat the MeatBall.\n",
                  consulted |-> <<2, 3>>]

(***************************************************************************)
(* Claims about what Logger::level and Logger::log leave alone.            *)
(***************************************************************************)
\* thread t takes a step of a call of the method op that it has in progress
StepOf(t, op) == lg_arg[t].op = op /\ lg_pc'[t] # lg_pc[t]

\* C24, as stated: no step of a Logger::level call changes the output or the
\* counter, and no step of a Logger::log call, accepted or dropped, changes
\* the threshold.
C24_LevelOnlyThreshold ==
    [][\A t \in LogThreads :
          /\ StepOf(t, "level")
             => Logger_os_' = Logger_os_ /\ Logger_count_' = Logger_count_
          /\ StepOf(t, "log") => Logger_level_' = Logger_level_]_vars

\* C24, amended: no step of a Logger::level call changes the counter or
\* writes a record; the only thing such a call can add to the output is the
\* start-up banner, at line 140 when no call has constructed the instance
\* before; and no step of a Logger::log call, accepted or dropped, changes
\* the threshold.
C24_LevelNoRecord ==
    [][\A t \in LogThreads :
          /\ StepOf(t, "level")
             => /\ Logger_count_' = Logger_count_
                /\ Logger_os_'
                   = IF lg_pc[t] = "L140" /\ ~Logger_instance
                     THEN Logger_os_ \o <<"****\tLOGGER\tSTART UP\t****", "\n">>
                     ELSE Logger_os_
          /\ StepOf(t, "log") => Logger_level_' = Logger_level_]_vars

\* the first call was Logger::level(warning), which wrote the banner; after
\* it a Logger::log call was dropped and another accepted; all have returned
\* and the threshold is still warning
C24_Witness ==
    /\ Len(lg_acq) = 3
    /\ lg_acq[1].op = "level" /\ lg_acq[1].level = warning
    /\ \A i \in 1..3 : lg_acq[i].done
    /\ {lg_acq[2].result, lg_acq[3].result} = {"dropped", "accepted"}
    /\ Logger_level_ = warning
    /\ Logger_count_ = 1
    /\ SubSeq(Logger_os_, 1, 2) = <<"****\tLOGGER\tSTART UP\t****", "\n">>

(***************************************************************************)
(* Claims about the Builder (SpecBuilder).                                 *)
(***************************************************************************)
\* the part a Produce* call makes, as the claim has it
PartOf(call) ==
    CASE call = "ProducePartA" -> "PartA1"
      [] call = "ProducePartB" -> "PartB1"
      [] call = "ProducePartC" -> "PartC1"

\* the parts produced by the calls of a trace since its last GetProduct (or
\* since construction), in production order
RECURSIVE ProducedSince(_)
ProducedSince(trace) ==
    IF trace = <<>> \/ trace[Len(trace)] = "GetProduct" THEN <<>>
    ELSE Append(ProducedSince(SubSeq(trace, 1, Len(trace) - 1)),
                PartOf(trace[Len(trace)]))

\* the places in the trace of the GetProduct calls, in order
GetPlaces ==
    LET places == {p \in 1..Len(bd_trace) : bd_trace[p] = "GetProduct"}
    IN  [k \in 1..Cardinality(places) |->
            CHOOSE p \in places : Cardinality({q \in places : q <= p}) = k]

\* C21: the k-th GetProduct returns a product holding exactly the parts
\* produced since the GetProduct before it (or since construction), in
\* production order; the builder is left with another, fresh product that
\* holds what has been produced since (nothing, right after the call); the
\* products returned are different objects, none of them the one under
\* construction, and a product the client holds keeps the parts it was
\* returned with whatever is produced later.
C21_ProductPerGet ==
    LET places == GetPlaces
    IN  /\ Len(bd_got) = Len(places)
        /\ \A k \in 1..Len(places) :
              /\ bd_got[k].parts
                 = ProducedSince(SubSeq(bd_trace, 1, places[k] - 1))
              /\ bd_got[k].product # bd_product
              /\ \A j \in 1..(k - 1) : bd_got[j].product # bd_got[k].product
              /\ ~bd_heap[bd_got[k].product].deleted
                 => bd_heap[bd_got[k].product].parts_ = bd_got[k].parts
        /\ bd_heap[bd_product].parts_ = ProducedSince(bd_trace)

\* the director built the minimal product and the client fetched it, the
\* director built the full product and the client fetched it, the client
\* deleted the first product and then asked the builder for a part C
C21_Witness ==
    /\ bd_trace = <<"ProducePartA", "GetProduct", "ProducePartA",
                    "ProducePartB", "ProducePartC", "GetProduct",
                    "ProducePartC">>
    /\ bd_got = <<[product |-> 1, parts |-> <<"PartA1">>],
                  [product |-> 2,
                   parts |-> <<"PartA1", "PartB1", "PartC1">>]>>
    /\ bd_heap[1].deleted
    /\ bd_product = 3
    /\ bd_heap[3].parts_ = <<"PartC1">>

(***************************************************************************)
(* Claims about the Composite (SpecComposite).                             *)
(***************************************************************************)
\* the results joined with "+" between every two consecutive ones and none
\* after the last
RECURSIVE JoinPlus(_)
JoinPlus(results) ==
    IF results = <<>> THEN ""
    ELSE IF Len(results) = 1 THEN results[1]
    ELSE Concat(<<results[1], "+", JoinPlus(Tail(results))>>)

\* C22: a call of Operation on a Composite whose children all answer returns
\* "Branch(", the children's Operation results in insertion order with "+"
\* between every two consecutive children and none after the last, and ")".
C22_BranchOfChildren ==
    [][(Len(cp_out') > Len(cp_out)
        /\ cp_heap[cp_call'.component].type = "Composite")
       => LET c == cp_call'.component
              children_ == cp_heap[c].children_
              results == [i \in 1..Len(children_) |->
                             Operation(cp_heap, children_[i], {c}).result]
          IN  cp_call'.result
              = Concat(<<"Branch(", JoinPlus(results), ")">>)]_vars

(***************************************************************************)
(* Claims about the Command pattern's Invoker (SpecCommand).               *)
(***************************************************************************)
\* C23: a call of DoSomethingImportant returns, having executed the on-start
\* command if SetOnStart has given the Invoker one, then done the Invoker's
\* own work, then executed the on-finish command if SetOnFinish has given
\* the Invoker one; for a command never set nothing is executed.
C23_StartWorkFinish ==
    [][Len(cm_out') > Len(cm_out)
       => /\ cm_run'.returned
          /\ cm_run'.events
             = (IF cm_set.start /\ Invoker_on_start_ # NULL
                THEN <<Executed(Invoker_on_start_)>> ELSE <<>>)
               \o <<OwnWork>>
               \o (IF cm_set.finish /\ Invoker_on_finish_ # NULL
                   THEN <<Executed(Invoker_on_finish_)>> ELSE <<>>)]_vars

====
